---- MODULE Spec2Model ----
(***************************************************************************)
(* CloudCounter: the hit classification and incremental aggregation        *)
(* pipeline (functions/api/count.ts processHit, src/lib/db.ts,             *)
(* src/lib/session.ts, src/stats/queries.ts updateStats) together with the *)
(* daily cleanup job (runDailyCleanup), over a D1 database whose schema is *)
(* migrations/0001_init.sql and a KV namespace holding the sessions.       *)
(*                                                                         *)
(* Time is counted in milliseconds (Date.getTime()).  A nullable value     *)
(* (SQL NULL, a missing KV key, TypeScript null) is a set with at most one  *)
(* element: {} is null.                                                    *)
(* Every `await` of the source is a step boundary: what runs between two   *)
(* awaits is one action.                                                   *)
(***************************************************************************)
EXTENDS Integers, Sequences, FiniteSets, TLC

----------------------------------------------------------------------------
(* Bounds of the model *)

\* requests accepted by handleCount in one behaviour of Spec
MaxHits == 2
\* requests accepted in one behaviour of SpecSeq (tasks one after another)
SeqMaxHits == 4
\* requests accepted in one behaviour of SpecFail
FailMaxHits == 3
\* requests accepted in one behaviour of SpecCleanup
CleanupMaxHits == 3
\* clock advances in one behaviour
MaxTicks == 1
\* runs of the scheduled cleanup job in one behaviour
MaxCleanups == 1
\* requests answered by handleCount in one behaviour of SpecHttp
HttpMaxRequests == 2
\* the largest period total compared in SpecChange
MaxTotal == 100
\* requests accepted in one behaviour of SpecRead
ReadMaxHits == 3
\* clock advances in one behaviour of SpecRead
ReadMaxTicks == 2
\* requests accepted in one behaviour of SpecFirst
FirstMaxHits == 3
\* requests accepted in one behaviour of SpecDrop
DropMaxHits == 3
\* requests accepted in one behaviour of SpecRaw
RawMaxHits == 2
\* the last date a custom period of SpecPeriod names, in days
MaxPeriodDay == 8
\* requests accepted in one behaviour of SpecVacuum
VacuumMaxHits == 2
\* requests accepted in one behaviour of SpecBatch
BatchMaxHits == 2
\* requests accepted and clock advances in one behaviour of SpecSlot
SlotMaxHits == 3
SlotMaxTicks == 2
\* requests accepted in one behaviour of SpecSame
SameMaxHits == 3

\* The slots for processHit tasks (waitUntil) in flight at the same time
Tasks == {1, 2}

----------------------------------------------------------------------------
(* Values *)

Null == {}
Some(v) == {v}
Val(o) == CHOOSE v \in o : TRUE

\* SUM(...) of SQL and Array.prototype.reduce: the sum of f over S
RECURSIVE Sum(_, _)
Sum(f, S) ==
  IF S = {} THEN 0
  ELSE LET x == CHOOSE y \in S : TRUE IN f[x] + Sum(f, S \ {x})

Second == 1000
Minute == 60 * Second
Hour == 60 * Minute
Day == 24 * Hour

\* session.ts:13, 8 hours (expirationTtl is in seconds, the clock in ms)
SESSION_TTL == 8 * 60 * 60 * Second

\* The instant the first request arrives: 23:10 UTC of day 0
StartTime == 23 * Hour + 10 * Minute
\* Amounts of time that may pass between two steps
TickSteps == {30 * Minute, SESSION_TTL}

\* User agents as the request header carries them, with the classification
\* parseUA (db.ts:179-351) gives them.  All pass the bot screen of
\* handleCount (detectBot is 100 for the empty header and 0 for the others,
\* never > 100).
UA_EMPTY ==
  [raw |-> "", browserName |-> "", browserVersion |-> "",
   osName |-> "", osVersion |-> ""]
UA_FIREFOX ==
  [raw |-> "Mozilla/5.0 (X11; Linux x86_64; rv:122.0) Gecko/20100101 Firefox/122.0",
   browserName |-> "Firefox", browserVersion |-> "122.0",
   osName |-> "Linux", osVersion |-> ""]
UA_BROWSER_ONLY ==
  [raw |-> "Mozilla/5.0 (compatible) Firefox/122.0",
   browserName |-> "Firefox", browserVersion |-> "122.0",
   osName |-> "", osVersion |-> ""]
UA_OS_ONLY ==
  [raw |-> "Mozilla/5.0 (X11; Linux x86_64)",
   browserName |-> "", browserVersion |-> "",
   osName |-> "Linux", osVersion |-> ""]
UA_SHORT ==
  [raw |-> "Mozilla/5.0",
   browserName |-> "", browserVersion |-> "",
   osName |-> "", osVersion |-> ""]
UA_LYNX ==
  [raw |-> "Lynx/2.8.9rel.1 libwww-FM/2.14 SSL-MM/1.4.1",
   browserName |-> "", browserVersion |-> "",
   osName |-> "", osVersion |-> ""]
UA_GOOGLEBOT ==
  [raw |-> "Mozilla/5.0 (compatible; Googlebot/2.1; +http://www.google.com/bot.html)",
   browserName |-> "", browserVersion |-> "",
   osName |-> "", osVersion |-> ""]

\* Referrers as parseRef (refs.ts:96-131) returns them
REF_NONE == [ref |-> "", scheme |-> "o"]
REF_SITE == [ref |-> "example.com/post", scheme |-> "h"]
REF_GOOGLE == [ref |-> "Google", scheme |-> "h"]

\* One accepted request, after the pure classification steps of processHit
\* (count.ts:141-150, 163-172): cleaned path, title, event flag, parsed
\* referrer, user agent, client ip, parsed screen width (parseInt or null),
\* country and language.
Request(p, t, e, r, ua, ip, s, loc) ==
  [path |-> p, title |-> t, isEvent |-> e, refData |-> r, ua |-> ua,
   ip |-> ip, s |-> s, location |-> loc, language |-> Some("en")]

\* The requests of Spec, SpecFail and SpecCleanup
Requests ==
  { Request("/a", "",     FALSE, REF_SITE,   UA_EMPTY,        "10.0.0.1", Some(1440), "DE"),
    Request("/a", "Home", TRUE,  REF_GOOGLE, UA_BROWSER_ONLY, "10.0.0.1", Some(40),   ""),
    Request("/b", "",     FALSE, REF_NONE,   UA_OS_ONLY,      "10.0.0.1", Null,       "DE") }

\* The requests of SpecSeq (tasks one after another)
SeqRequests ==
  { Request("/a", "",     FALSE, REF_SITE, UA_FIREFOX, "10.0.0.1", Some(1440), "DE"),
    Request("/b", "Blog", FALSE, REF_NONE, UA_FIREFOX, "10.0.0.1", Some(40),   ""),
    Request("/a", "Home", TRUE,  REF_SITE, UA_FIREFOX, "10.0.0.2", Null,       "DE") }

\* The requests of SpecRead: three pages, one client with two user agents
ReadRequests ==
  { Request("/a", "Home", FALSE, REF_SITE, UA_FIREFOX, "10.0.0.1", Null, ""),
    Request("/b", "", FALSE, REF_NONE, UA_EMPTY, "10.0.0.1", Null, ""),
    Request("/c", "", FALSE, REF_NONE, UA_EMPTY, "10.0.0.1", Null, "") }

----------------------------------------------------------------------------
(* State *)

VARIABLES
  \* D1 identity tables (0001_init.sql:5-39); sqlite_sequence holds the last
  \* id AUTOINCREMENT handed out per table
  paths, refs, browsers, systems, sqlite_sequence,
  \* D1 raw log and rollup tables (0001_init.sql:42-126) and settings
  hits, hit_counts, hit_stats, ref_counts, browser_stats, system_stats,
  location_stats, size_stats, settings,
  \* KV namespace SESSIONS: key -> stored session with its expiry instant
  kv,
  \* the clock
  now,
  \* the processHit tasks and the cleanup job
  task, job,
  \* counters that bound a behaviour
  started, ticks, cleanups, sidSeq,
  \* history: what each operation returned or raised
  sessLog, resLog, errLog, assigned, nRecorded, nFirstBrowser,
  \* what handleCount answered to each request, in order, and what the
  \* dashboard read last
  respLog, report,
  \* the auth guard: the request onRequest handles and where it stands
  guard

idTables == <<paths, refs, browsers, systems, sqlite_sequence>>
aggTables == <<hits, hit_counts, hit_stats, ref_counts, browser_stats,
               system_stats, location_stats, size_stats>>
counters == <<started, ticks, cleanups>>
history == <<sessLog, resLog, errLog, assigned, nRecorded, nFirstBrowser>>
views == <<respLog, report, guard>>
vars == <<idTables, aggTables, settings, kv, now, task, job, counters,
          sidSeq, history, views>>

----------------------------------------------------------------------------
(* The processHit task *)

Dims == {"path", "ref", "browser", "system"}

\* A task slot with no processHit running in it.  main is the position of
\* processHit itself; dpc[d] is the position of the get-or-create call of
\* dimension d started by Promise.all (count.ts:153-158); stmts[d] counts
\* the D1 statements that call has executed.
\* put is the session record getOrCreateSession is about to write,
\* createdAt the `new Date()` of count.ts:175.
IdleTask ==
  [main |-> "idle", req |-> Null,
   dpc |-> [d \in Dims |-> "none"], ids |-> [d \in Dims |-> 0],
   stmts |-> [d \in Dims |-> 0],
   put |-> Null, firstVisit |-> FALSE, sessionId |-> 0,
   createdAt |-> 0]

Running(rec, d) == rec.dpc[d] \in {"select", "update", "insert"}

\* A task whose processHit has returned or thrown and whose get-or-create
\* calls have all ended leaves its slot.
Settle(rec) ==
  IF rec.main \in {"done", "dropped"} /\ \A d \in Dims : ~Running(rec, d)
  THEN IdleTask ELSE rec

\* Dimension call d of the task returns id
ReturnId(rec, d, id) == [rec EXCEPT !.dpc[d] = "done", !.ids[d] = id]

\* Dimension call d of the task throws: Promise.all rejects, processHit ends
\* there (handleCount has long returned); the other calls run on.
Throw(rec, d) ==
  Settle([rec EXCEPT !.dpc[d] = "failed",
                     !.main = IF @ = "resolve" THEN "dropped" ELSE @])

Stmt(rec, d) == [rec EXCEPT !.stmts[d] = @ + 1]

Result(d, key, rec) ==
  [dim |-> d, key |-> key, id |-> rec.ids[d], stmts |-> rec.stmts[d]]

\* A faulty variant of IsEmpty: the early return is never taken
IsEmptyNever(str) == FALSE

\* `if (!ref) return 1` (db.ts:51), `if (!name) return 1` (db.ts:81, 111)
IsEmpty(str) == str = ""

\* A faulty variant of NextId: one more than the largest id the table holds
\* now (a rowid that is not AUTOINCREMENT)
NextIdOfRows(table, ids) ==
  (CHOOSE m \in ids \cup {0} : \A i \in ids \cup {0} : i <= m) + 1

\* AUTOINCREMENT (0001_init.sql:6, 15, 24, 33, 43): one more than the largest
\* id the table has ever held (sqlite_sequence), whatever ids it holds now
NextId(table, ids) == sqlite_sequence[table] + 1

\* A faulty variant of RefRows: the two values bound in the wrong order
RefRowsSwapped(ref, scheme) ==
  {r \in refs : r.ref = scheme /\ r.ref_scheme = ref}

\* The rows the SELECTs of the get-or-create calls match (db.ts:18, 55, 85,
\* 115)
PathRows(p) == {r \in paths : r.path = p}
RefRows(ref, scheme) == {r \in refs : r.ref = ref /\ r.ref_scheme = scheme}
BrowserRows(name, version) ==
  {r \in browsers : r.name = name /\ r.version = version}
SystemRows(name, version) ==
  {r \in systems : r.name = name /\ r.version = version}

\* UNIQUE(path), UNIQUE(ref, ref_scheme), UNIQUE(name, version)
\* (0001_init.sql:10, 18, 27, 36): an INSERT of a key the table holds fails
PathTaken(p) == \E r \in paths : r.path = p
RefTaken(ref, scheme) == \E r \in refs : r.ref = ref /\ r.ref_scheme = scheme
BrowserTaken(name, version) ==
  \E r \in browsers : r.name = name /\ r.version = version
SystemTaken(name, version) ==
  \E r \in systems : r.name = name /\ r.version = version

PathKey(q) == <<q.path>>
RefKey(q) == <<q.refData.ref, q.refData.scheme>>
BrowserKey(q) == <<q.ua.browserName, q.ua.browserVersion>>
SystemKey(q) == <<q.ua.osName, q.ua.osVersion>>

\* processHit up to its first await (count.ts:138-158): the four
\* get-or-create calls are started; those for an empty referrer, browser or
\* OS name have already returned 1.
StartTask(q) ==
  LET r0 == [IdleTask EXCEPT !.main = "resolve", !.req = Some(q),
                             !.dpc = [d \in Dims |-> "select"]]
      r1 == IF IsEmpty(q.refData.ref) THEN ReturnId(r0, "ref", 1) ELSE r0
      r2 == IF IsEmpty(q.ua.browserName) THEN ReturnId(r1, "browser", 1) ELSE r1
      r3 == IF IsEmpty(q.ua.osName) THEN ReturnId(r2, "system", 1) ELSE r2
  IN r3

SentinelResults(q, rec) ==
  {Result(d, k, rec) : <<d, k>> \in
     { x \in {<<"ref", RefKey(q)>>, <<"browser", BrowserKey(q)>>,
              <<"system", SystemKey(q)>>} : rec.dpc[x[1]] = "done" }}

ProcessHit(t, q) ==
  /\ task[t].main = "idle"
  /\ task' = [task EXCEPT ![t] = StartTask(q)]
  /\ resLog' = resLog \cup SentinelResults(q, StartTask(q))
  /\ started' = started + 1
  /\ UNCHANGED <<idTables, aggTables, settings, kv, now, report, guard, job, ticks,
                 cleanups, sidSeq, sessLog, errLog, assigned, nRecorded,
                 nFirstBrowser>>

----------------------------------------------------------------------------
(* What a step of a get-or-create call does to the task and the history *)

\* the SELECT found a row: return its id
Found(t, d, key, id) ==
  /\ task' = [task EXCEPT ![t] = ReturnId(Stmt(task[t], d), d, id)]
  /\ resLog' = resLog \cup {Result(d, key, ReturnId(Stmt(task[t], d), d, id))}

\* the SELECT found none: go on to the INSERT
Missed(t, d) ==
  /\ task' = [task EXCEPT ![t] = [Stmt(task[t], d) EXCEPT !.dpc[d] = "insert"]]
  /\ UNCHANGED resLog

\* the statement failed: the call throws
Raised(t, d, op, error) ==
  /\ task' = [task EXCEPT ![t] = Throw(Stmt(task[t], d), d)]
  /\ errLog' = errLog \cup {[op |-> op, error |-> error]}

Others == <<aggTables, settings, kv, now, job, counters, sidSeq, sessLog,
            nRecorded, nFirstBrowser, views>>

----------------------------------------------------------------------------
(* getOrCreatePath (db.ts:10-40) *)

\* SELECT path_id FROM paths WHERE path = ?
SelectPath(t) ==
  LET q == Val(task[t].req)
      existing == PathRows(q.path)
      id == (CHOOSE r \in existing : TRUE).path_id
  IN /\ task[t].dpc["path"] = "select"
     /\ IF existing # {}
        THEN IF q.title # ""
             THEN /\ task' = [task EXCEPT ![t] =
                        [Stmt(task[t], "path") EXCEPT !.dpc["path"] = "update",
                                                      !.ids["path"] = id]]
                  /\ UNCHANGED resLog
             ELSE Found(t, "path", PathKey(q), id)
        ELSE Missed(t, "path")
     /\ UNCHANGED <<idTables, Others, errLog, assigned>>

\* A faulty variant of UpdatePath: the event flag is written with the title
UpdatePathAndEvent(t) ==
  LET q == Val(task[t].req)
      id == task[t].ids["path"]
  IN /\ task[t].dpc["path"] = "update"
     /\ paths' = {IF r.path_id = id /\ r.title # q.title
                  THEN [r EXCEPT !.title = q.title,
                                 !.event = IF q.isEvent THEN 1 ELSE 0]
                  ELSE r : r \in paths}
     /\ Found(t, "path", PathKey(q), id)
     /\ UNCHANGED <<refs, browsers, systems, sqlite_sequence, Others, errLog,
                    assigned>>

\* UPDATE paths SET title = ? WHERE path_id = ? AND title != ?
UpdatePath(t) ==
  LET q == Val(task[t].req)
      id == task[t].ids["path"]
  IN /\ task[t].dpc["path"] = "update"
     /\ paths' = {IF r.path_id = id /\ r.title # q.title
                  THEN [r EXCEPT !.title = q.title] ELSE r : r \in paths}
     /\ Found(t, "path", PathKey(q), id)
     /\ UNCHANGED <<refs, browsers, systems, sqlite_sequence, Others, errLog,
                    assigned>>

\* INSERT INTO paths (path, title, event) VALUES (?, ?, ?) RETURNING path_id
InsertPath(t) ==
  LET q == Val(task[t].req)
      id == NextId("paths", {r.path_id : r \in paths})
  IN /\ task[t].dpc["path"] = "insert"
     /\ IF PathTaken(q.path)
        THEN /\ Raised(t, "path", "getOrCreatePath", "UNIQUE")
             /\ UNCHANGED <<paths, sqlite_sequence, resLog, assigned>>
        ELSE /\ paths' = paths \cup
                  {[path_id |-> id, path |-> q.path, title |-> q.title,
                    event |-> IF q.isEvent THEN 1 ELSE 0]}
             /\ sqlite_sequence' = [sqlite_sequence EXCEPT !["paths"] = id]
             /\ Found(t, "path", PathKey(q), id)
             /\ assigned' = assigned \cup {<<"paths", id, PathKey(q)>>}
             /\ UNCHANGED errLog
     /\ UNCHANGED <<refs, browsers, systems, Others>>

----------------------------------------------------------------------------
(* getOrCreateRef (db.ts:45-70) *)

\* SELECT ref_id FROM refs WHERE ref = ? AND ref_scheme = ?
SelectRef(t) ==
  LET q == Val(task[t].req)
      existing == RefRows(q.refData.ref, q.refData.scheme)
  IN /\ task[t].dpc["ref"] = "select"
     /\ IF existing # {}
        THEN Found(t, "ref", RefKey(q), (CHOOSE r \in existing : TRUE).ref_id)
        ELSE Missed(t, "ref")
     /\ UNCHANGED <<idTables, Others, errLog, assigned>>

\* INSERT INTO refs (ref, ref_scheme) VALUES (?, ?) RETURNING ref_id
InsertRef(t) ==
  LET q == Val(task[t].req)
      id == NextId("refs", {r.ref_id : r \in refs})
  IN /\ task[t].dpc["ref"] = "insert"
     /\ IF RefTaken(q.refData.ref, q.refData.scheme)
        THEN /\ Raised(t, "ref", "getOrCreateRef", "UNIQUE")
             /\ UNCHANGED <<refs, sqlite_sequence, resLog, assigned>>
        ELSE /\ refs' = refs \cup
                  {[ref_id |-> id, ref |-> q.refData.ref,
                    ref_scheme |-> q.refData.scheme]}
             /\ sqlite_sequence' = [sqlite_sequence EXCEPT !["refs"] = id]
             /\ Found(t, "ref", RefKey(q), id)
             /\ assigned' = assigned \cup {<<"refs", id, RefKey(q)>>}
             /\ UNCHANGED errLog
     /\ UNCHANGED <<paths, browsers, systems, Others>>

----------------------------------------------------------------------------
(* getOrCreateBrowser (db.ts:75-100) *)

\* SELECT browser_id FROM browsers WHERE name = ? AND version = ?
SelectBrowser(t) ==
  LET q == Val(task[t].req)
      existing == BrowserRows(q.ua.browserName, q.ua.browserVersion)
  IN /\ task[t].dpc["browser"] = "select"
     /\ IF existing # {}
        THEN Found(t, "browser", BrowserKey(q),
                   (CHOOSE r \in existing : TRUE).browser_id)
        ELSE Missed(t, "browser")
     /\ UNCHANGED <<idTables, Others, errLog, assigned>>

\* INSERT INTO browsers (name, version) VALUES (?, ?) RETURNING browser_id
InsertBrowser(t) ==
  LET q == Val(task[t].req)
      id == NextId("browsers", {r.browser_id : r \in browsers})
  IN /\ task[t].dpc["browser"] = "insert"
     /\ IF BrowserTaken(q.ua.browserName, q.ua.browserVersion)
        THEN /\ Raised(t, "browser", "getOrCreateBrowser", "UNIQUE")
             /\ UNCHANGED <<browsers, sqlite_sequence, resLog, assigned>>
        ELSE /\ browsers' = browsers \cup
                  {[browser_id |-> id, name |-> q.ua.browserName,
                    version |-> q.ua.browserVersion]}
             /\ sqlite_sequence' = [sqlite_sequence EXCEPT !["browsers"] = id]
             /\ Found(t, "browser", BrowserKey(q), id)
             /\ assigned' = assigned \cup {<<"browsers", id, BrowserKey(q)>>}
             /\ UNCHANGED errLog
     /\ UNCHANGED <<paths, refs, systems, Others>>

----------------------------------------------------------------------------
(* getOrCreateSystem (db.ts:105-130) *)

\* SELECT system_id FROM systems WHERE name = ? AND version = ?
SelectSystem(t) ==
  LET q == Val(task[t].req)
      existing == SystemRows(q.ua.osName, q.ua.osVersion)
  IN /\ task[t].dpc["system"] = "select"
     /\ IF existing # {}
        THEN Found(t, "system", SystemKey(q),
                   (CHOOSE r \in existing : TRUE).system_id)
        ELSE Missed(t, "system")
     /\ UNCHANGED <<idTables, Others, errLog, assigned>>

\* INSERT INTO systems (name, version) VALUES (?, ?) RETURNING system_id
InsertSystem(t) ==
  LET q == Val(task[t].req)
      id == NextId("systems", {r.system_id : r \in systems})
  IN /\ task[t].dpc["system"] = "insert"
     /\ IF SystemTaken(q.ua.osName, q.ua.osVersion)
        THEN /\ Raised(t, "system", "getOrCreateSystem", "UNIQUE")
             /\ UNCHANGED <<systems, sqlite_sequence, resLog, assigned>>
        ELSE /\ systems' = systems \cup
                  {[system_id |-> id, name |-> q.ua.osName,
                    version |-> q.ua.osVersion]}
             /\ sqlite_sequence' = [sqlite_sequence EXCEPT !["systems"] = id]
             /\ Found(t, "system", SystemKey(q), id)
             /\ assigned' = assigned \cup {<<"systems", id, SystemKey(q)>>}
             /\ UNCHANGED errLog
     /\ UNCHANGED <<paths, refs, browsers, Others>>

----------------------------------------------------------------------------
(* getOrCreateSession (session.ts:19-93) *)

\* SHA-256 over `${ip}|${userAgent}`, hex encoded: a one-way function that
\* is taken to be collision free, so the digest stands for the hashed text.
\* A session hash made of the address alone
generateSessionHashOfIp(ip, userAgent) == <<"sha256", ip>>

generateSessionHash(ip, userAgent) == <<"sha256", ip \o "|" \o userAgent>>

SessionKey(q) == <<"session:", generateSessionHash(q.ip, q.ua.raw)>>

\* generateSessionId: 16 random bytes; no two draws are taken to collide
generateSessionId == sidSeq + 1

\* existing.pathsSeen.includes(pathId)
Includes(pathsSeen, pathId) ==
  \E i \in DOMAIN pathsSeen : pathsSeen[i] = pathId

\* A faulty variant of FirstVisit: compares with the last path seen only
FirstVisitLastOnly(existing, pathId) ==
  existing.pathsSeen[Len(existing.pathsSeen)] # pathId

\* session.ts:64
FirstVisit(existing, pathId) == ~Includes(existing.pathsSeen, pathId)

\* kv.get(key, 'json'): the stored value, or null once the key has expired
KvGet(key) == IF key \in DOMAIN kv THEN Some(kv[key].value) ELSE Null

\* A put that leaves the expiry of a key that is already stored
KvPutKeepsExpiry(key, value) ==
  [k \in DOMAIN kv \cup {key} |->
     IF k = key
     THEN [value |-> value,
           expires |-> IF key \in DOMAIN kv THEN kv[key].expires
                       ELSE now + SESSION_TTL]
     ELSE kv[k]]

\* kv.put(key, value, { expirationTtl: SESSION_TTL })
KvPut(key, value) ==
  [k \in DOMAIN kv \cup {key} |->
     IF k = key THEN [value |-> value, expires |-> now + SESSION_TTL]
     ELSE kv[k]]

\* A faulty variant of AllResolved: only the path id is awaited
PathResolved(rec) == rec.dpc["path"] = "done"

\* Promise.all has resolved (count.ts:153-158)
AllResolved(rec) == \A d \in Dims : rec.dpc[d] = "done"

SessionEntry(rec, at) ==
  [sessionHash |-> generateSessionHash(Val(rec.req).ip, Val(rec.req).ua.raw),
   sessionId |-> rec.sessionId, pathId |-> rec.ids["path"],
   firstVisit |-> rec.firstVisit, at |-> at]

\* getOrCreateSession returns to processHit, which builds the hit
\* (count.ts:163-189) and calls updateStats
SessionReturns(t, rec) ==
  /\ task' = [task EXCEPT ![t] = [rec EXCEPT !.main = "batch", !.put = Null,
                                             !.createdAt = now]]
  /\ sessLog' = Append(sessLog, SessionEntry(rec, now))

\* Promise.all has resolved; session.ts:56-60 and what follows the get up to
\* the next await
SessionGet(t) ==
  LET rec == task[t]
      q == Val(rec.req)
      pathId == rec.ids["path"]
      existing == KvGet(SessionKey(q))
  IN /\ rec.main = "resolve"
     /\ AllResolved(rec)
     /\ IF existing # Null
        THEN LET e == Val(existing)
                 firstVisit == FirstVisit(e, pathId)
                 r1 == [rec EXCEPT !.firstVisit = firstVisit, !.sessionId = e.id]
             IN /\ IF firstVisit
                   THEN /\ task' = [task EXCEPT ![t] =
                              [r1 EXCEPT !.main = "kvput",
                                         !.put = Some([e EXCEPT !.pathsSeen =
                                                         Append(@, pathId)])]]
                        /\ UNCHANGED sessLog
                   ELSE SessionReturns(t, r1)
                /\ UNCHANGED sidSeq
        ELSE /\ task' = [task EXCEPT ![t] =
                   [rec EXCEPT !.main = "kvput", !.firstVisit = TRUE,
                               !.sessionId = generateSessionId,
                               !.put = Some([id |-> generateSessionId,
                                             pathsSeen |-> <<pathId>>,
                                             createdAt |-> now])]]
             /\ sidSeq' = generateSessionId
             /\ UNCHANGED sessLog
     /\ UNCHANGED <<idTables, aggTables, settings, kv, now, views, job, counters,
                    resLog, errLog, assigned, nRecorded, nFirstBrowser>>

\* await kv.put(...) (session.ts:69, 86) and the return
SessionPut(t) ==
  LET rec == task[t]
  IN /\ rec.main = "kvput"
     /\ kv' = KvPut(SessionKey(Val(rec.req)), Val(rec.put))
     /\ SessionReturns(t, rec)
     /\ UNCHANGED <<idTables, aggTables, settings, now, views, job, counters, sidSeq,
                    resLog, errLog, assigned, nRecorded, nFirstBrowser>>

----------------------------------------------------------------------------
(* Formatting helpers (db.ts:136-165) *)

\* formatHour: the ISO instant cut to its hour, "...T14:00:00Z"
\* A bucket one hour late
formatHourNext(date) == date - (date % Hour) + Hour

formatHour(date) == date - (date % Hour)

\* formatDay: the ISO instant cut to its date, "2024-01-15"
formatDay(date) == date \div Day

\* Date.getHours in a zone one hour east of UTC
getHours(date) == ((date \div Hour) + 1) % 24

\* Date.getUTCHours
getUTCHours(date) == (date \div Hour) % 24

\* normalizeWidth: null for null or non-positive, else Math.round(w / 100) * 100
normalizeWidth(width) ==
  IF width = Null \/ Val(width) <= 0 THEN Null
  ELSE Some(((Val(width) + 50) \div 100) * 100)

----------------------------------------------------------------------------
(* updateStats (queries.ts:574-698) and updateFirstHit (queries.ts:703-709) *)

\* The ProcessedHit processHit builds (count.ts:163-189)
ProcessedHit(rec) ==
  LET q == Val(rec.req)
  IN [pathId |-> rec.ids["path"], refId |-> rec.ids["ref"],
      browserId |-> rec.ids["browser"], systemId |-> rec.ids["system"],
      session |-> generateSessionHash(q.ip, q.ua.raw),
      firstVisit |-> rec.firstVisit, width |-> normalizeWidth(q.s),
      location |-> q.location, language |-> q.language,
      createdAt |-> rec.createdAt, hour |-> formatHour(rec.createdAt),
      day |-> formatDay(rec.createdAt)]

\* A faulty variant of Upsert: the conflict branch stores 1 again
UpsertOverwrites(table, key) ==
  [k \in DOMAIN table \cup {key} |-> IF k = key THEN 1 ELSE table[k]]

\* INSERT ... VALUES (..., 1) ON CONFLICT(...) DO UPDATE SET total = total + 1
Upsert(table, key) ==
  IF key \in DOMAIN table THEN [table EXCEPT ![key] = @ + 1]
  ELSE table @@ (key :> 1)

\* createHourlyArray: 24 zeros with a 1 at hourIndex
createHourlyArray(hourIndex) == [i \in 0..23 |-> IF i = hourIndex THEN 1 ELSE 0]

\* A faulty variant of JsonIncrement: the slot is set to 1
JsonSetsOne(stats, hourIndex) ==
  IF hourIndex \in DOMAIN stats THEN [stats EXCEPT ![hourIndex] = 1]
  ELSE stats

\* json_replace(stats, '$[h]', COALESCE(json_extract(stats, '$[h]'), 0) + 1):
\* json_replace changes only an element that exists
JsonIncrement(stats, hourIndex) ==
  IF hourIndex \in DOMAIN stats THEN [stats EXCEPT ![hourIndex] = @ + 1]
  ELSE stats

\* A faulty variant of UpsertHitStats: the conflict branch stores the new
\* array in place of the old one
UpsertHitStatsReplaces(table, key, hourIndex) ==
  [k \in DOMAIN table \cup {key} |->
     IF k = key THEN createHourlyArray(hourIndex) ELSE table[k]]

\* INSERT INTO hit_stats ... ON CONFLICT(path_id, day) DO UPDATE SET stats =
\* json_replace(...) (queries.ts:608-627)
UpsertHitStats(table, key, hourIndex) ==
  IF key \in DOMAIN table
  THEN [table EXCEPT ![key] = JsonIncrement(@, hourIndex)]
  ELSE table @@ (key :> createHourlyArray(hourIndex))

\* A faulty variant of CountsDimensions: the first-visit guard is missing
CountsDimensionsAlways(hit) == TRUE

\* A faulty variant of CountsWidth: only null is taken for unknown
CountsWidthNotNull(hit) == hit.width # Null

\* The guards of statements 4-8 (queries.ts:630, 632, 643, 654, 665, 676)
CountsDimensions(hit) == hit.firstVisit
CountsRef(hit) == hit.refId > 1
CountsBrowser(hit) == hit.browserId > 1
CountsSystem(hit) == hit.systemId > 1
CountsLocation(hit) == hit.location # ""
CountsWidth(hit) == hit.width # Null /\ Val(hit.width) > 0

HitRow(hit, id) ==
  [hit_id |-> id, path_id |-> hit.pathId, ref_id |-> hit.refId,
   browser_id |-> hit.browserId, system_id |-> hit.systemId,
   session |-> hit.session, first_visit |-> IF hit.firstVisit THEN 1 ELSE 0,
   width |-> hit.width, location |-> hit.location,
   language |-> hit.language, created_at |-> hit.createdAt]

\* The eight tables updateStats writes, as they are
Tables ==
  [hits |-> hits, hit_counts |-> hit_counts, hit_stats |-> hit_stats,
   ref_counts |-> ref_counts, browser_stats |-> browser_stats,
   system_stats |-> system_stats, location_stats |-> location_stats,
   size_stats |-> size_stats]

\* The statements of the batch, all applied (queries.ts:580-685)
Applied(hit) ==
  LET dims == CountsDimensions(hit)
  IN [hits |-> hits \cup {HitRow(hit, NextId("hits", {r.hit_id : r \in hits}))},
      hit_counts |-> Upsert(hit_counts, <<hit.pathId, hit.hour>>),
      hit_stats |-> UpsertHitStats(hit_stats, <<hit.pathId, hit.day>>,
                                   getUTCHours(hit.createdAt)),
      ref_counts |->
        IF dims /\ CountsRef(hit)
        THEN Upsert(ref_counts, <<hit.pathId, hit.refId, hit.hour>>)
        ELSE ref_counts,
      browser_stats |->
        IF dims /\ CountsBrowser(hit)
        THEN Upsert(browser_stats, <<hit.pathId, hit.browserId, hit.day>>)
        ELSE browser_stats,
      system_stats |->
        IF dims /\ CountsSystem(hit)
        THEN Upsert(system_stats, <<hit.pathId, hit.systemId, hit.day>>)
        ELSE system_stats,
      location_stats |->
        IF dims /\ CountsLocation(hit)
        THEN Upsert(location_stats, <<hit.pathId, hit.day, hit.location>>)
        ELSE location_stats,
      size_stats |->
        IF dims /\ CountsWidth(hit)
        THEN Upsert(size_stats, <<hit.pathId, hit.day, Val(hit.width)>>)
        ELSE size_stats]

\* A faulty variant of RolledBack: the statements run one by one, and the
\* raw insert stays when a later one fails
RolledBackAfterInsert(hit) == [Tables EXCEPT !.hits = Applied(hit).hits]

\* db.batch(statements) that fails (queries.ts:688): D1 runs a batch as one
\* transaction and rolls all of it back
RolledBack(hit) == Tables

\* REFERENCES paths/refs/browsers/systems (0001_init.sql:44-47, 62, 71, 80,
\* 81, 90, 91, 100, 101, 110, 120); D1 enforces foreign keys
ForeignKeysHold(hit) ==
  /\ \E r \in paths : r.path_id = hit.pathId
  /\ \E r \in refs : r.ref_id = hit.refId
  /\ \E r \in browsers : r.browser_id = hit.browserId
  /\ \E r \in systems : r.system_id = hit.systemId

WriteTables(tables) ==
  /\ hits' = tables.hits
  /\ hit_counts' = tables.hit_counts
  /\ hit_stats' = tables.hit_stats
  /\ ref_counts' = tables.ref_counts
  /\ browser_stats' = tables.browser_stats
  /\ system_stats' = tables.system_stats
  /\ location_stats' = tables.location_stats
  /\ size_stats' = tables.size_stats

\* history counters: one more call of updateStats that returned
Bump(counter, key) ==
  [k \in DOMAIN counter \cup {key} |->
     (IF k \in DOMAIN counter THEN counter[k] ELSE 0) + (IF k = key THEN 1 ELSE 0)]

\* await updateStats(db, hit) returns (count.ts:192)
UpdateStats(t) ==
  LET rec == task[t]
      hit == ProcessedHit(rec)
  IN /\ rec.main = "batch"
     /\ ForeignKeysHold(hit)
     /\ WriteTables(Applied(hit))
     /\ sqlite_sequence' = [sqlite_sequence EXCEPT !["hits"] = @ + 1]
     /\ task' = [task EXCEPT ![t] =
           Settle([rec EXCEPT !.main = IF hit.firstVisit THEN "firsthit"
                                       ELSE "done"])]
     /\ nRecorded' = Bump(nRecorded, <<hit.pathId, hit.hour>>)
     /\ nFirstBrowser' =
           IF hit.firstVisit
           THEN Bump(nFirstBrowser, <<hit.pathId, hit.browserId, hit.day>>)
           ELSE nFirstBrowser
     /\ UNCHANGED <<paths, refs, browsers, systems, settings, kv, now, views, job,
                    counters, sidSeq, sessLog, resLog, errLog, assigned>>

\* await updateStats(db, hit) throws: the batch failed, on a constraint or
\* on a storage error; processHit ends there
UpdateStatsFails(t) ==
  LET rec == task[t]
      hit == ProcessedHit(rec)
  IN /\ rec.main = "batch"
     /\ WriteTables(RolledBack(hit))
     /\ task' = [task EXCEPT ![t] = Settle([rec EXCEPT !.main = "dropped"])]
     /\ errLog' = errLog \cup
           {[op |-> "updateStats",
             error |-> IF ForeignKeysHold(hit) THEN "D1_ERROR"
                       ELSE "FOREIGN KEY"]}
     /\ UNCHANGED <<idTables, settings, kv, now, views, job, counters, sidSeq,
                    sessLog, resLog, assigned, nRecorded, nFirstBrowser>>

\* An update without the test for NULL
UpdateFirstHitAlways(t) ==
  /\ task[t].main = "firsthit"
  /\ settings' = [settings EXCEPT !.first_hit_at = Some(now)]
  /\ task' = [task EXCEPT ![t] = Settle([task[t] EXCEPT !.main = "done"])]
  /\ UNCHANGED <<idTables, aggTables, kv, now, views, job, counters, sidSeq, history>>

\* UPDATE settings SET value = datetime('now')
\* WHERE key = 'first_hit_at' AND value IS NULL    (count.ts:195-197)
UpdateFirstHit(t) ==
  /\ task[t].main = "firsthit"
  /\ settings' = [settings EXCEPT !.first_hit_at =
                     IF @ = Null THEN Some(now) ELSE @]
  /\ task' = [task EXCEPT ![t] = Settle([task[t] EXCEPT !.main = "done"])]
  /\ UNCHANGED <<idTables, aggTables, kv, now, views, job, counters, sidSeq, history>>

----------------------------------------------------------------------------
(* Storage failures (no try/catch in db.ts, session.ts, processHit) *)

\* The get-or-create call of each dimension
GetOrCreateName ==
  [path |-> "getOrCreatePath", ref |-> "getOrCreateRef",
   browser |-> "getOrCreateBrowser", system |-> "getOrCreateSystem"]

\* The statement a get-or-create call waits for fails with a storage error:
\* the call throws (db.ts:17, 25, 34, 54, 64, 84, 94, 114, 124)
DimensionFails(t, d) ==
  /\ Running(task[t], d)
  /\ Raised(t, d, GetOrCreateName[d], "D1_ERROR")
  /\ UNCHANGED <<idTables, Others, resLog, assigned>>

\* A getOrCreateSession that swallows the failure: processHit goes on to
\* the batch as for a first visit
SessionFailsGoesOn(t) ==
  /\ \/ task[t].main = "resolve" /\ AllResolved(task[t])
     \/ task[t].main = "kvput"
  /\ task' = [task EXCEPT ![t] =
        [task[t] EXCEPT !.main = "batch", !.firstVisit = TRUE,
                        !.createdAt = now]]
  /\ errLog' = errLog \cup
        {[op |-> "getOrCreateSession", error |-> "KV_ERROR"]}
  /\ UNCHANGED <<idTables, aggTables, settings, kv, now, views, job, counters,
                 sidSeq, sessLog, resLog, assigned, nRecorded, nFirstBrowser>>

\* kv.get or kv.put of getOrCreateSession fails (session.ts:60, 69, 86):
\* the call throws and processHit ends
SessionFails(t) ==
  /\ \/ task[t].main = "resolve" /\ AllResolved(task[t])
     \/ task[t].main = "kvput"
  /\ task' = [task EXCEPT ![t] = Settle([task[t] EXCEPT !.main = "dropped"])]
  /\ errLog' = errLog \cup
        {[op |-> "getOrCreateSession", error |-> "KV_ERROR"]}
  /\ UNCHANGED <<idTables, aggTables, settings, kv, now, views, job, counters,
                 sidSeq, sessLog, resLog, assigned, nRecorded, nFirstBrowser>>

----------------------------------------------------------------------------
(* runDailyCleanup (worker entry point, scheduled) *)

\* SELECT value FROM settings WHERE key = 'data_retention_days'; the
\* retention deletes run only for a value > 0, and the migration seeds 0
CleanupStart ==
  /\ job = "idle"
  /\ cleanups < MaxCleanups
  /\ cleanups' = cleanups + 1
  /\ job' = IF settings.data_retention_days > 0 THEN "retention" ELSE "refs"
  /\ UNCHANGED <<idTables, aggTables, settings, kv, now, views, task, started, ticks,
                 sidSeq, history>>

\* The operator stores a retention in settings.data_retention_days (the
\* value column of the row the migration seeds); no code writes it
SetRetention(days) ==
  /\ job = "idle"
  /\ settings.data_retention_days # days
  /\ settings' = [settings EXCEPT !.data_retention_days = days]
  /\ UNCHANGED <<idTables, aggTables, kv, now, views, task, job, counters,
                 sidSeq, history>>

\* A faulty variant of UnusedRef: the raw hits are not looked at
UnusedRefNotInCounts(r) ==
  /\ r.ref_id > 1
  /\ r.ref_id \notin {k[2] : k \in DOMAIN ref_counts}

\* DELETE FROM refs WHERE ref_id > 1 AND ref_id NOT IN (ref_counts)
\*   AND ref_id NOT IN (hits)
UnusedRef(r) ==
  /\ r.ref_id > 1
  /\ r.ref_id \notin {k[2] : k \in DOMAIN ref_counts}
  /\ r.ref_id \notin {h.ref_id : h \in hits}

UnusedBrowser(r) ==
  /\ r.browser_id > 1
  /\ r.browser_id \notin {k[2] : k \in DOMAIN browser_stats}
  /\ r.browser_id \notin {h.browser_id : h \in hits}

UnusedSystem(r) ==
  /\ r.system_id > 1
  /\ r.system_id \notin {k[2] : k \in DOMAIN system_stats}
  /\ r.system_id \notin {h.system_id : h \in hits}

VacuumRefs ==
  /\ job = "refs"
  /\ refs' = {r \in refs : ~UnusedRef(r)}
  /\ job' = "browsers"
  /\ UNCHANGED <<paths, browsers, systems, sqlite_sequence, aggTables,
                 settings, kv, now, views, task, counters, sidSeq, history>>

VacuumBrowsers ==
  /\ job = "browsers"
  /\ browsers' = {r \in browsers : ~UnusedBrowser(r)}
  /\ job' = "systems"
  /\ UNCHANGED <<paths, refs, systems, sqlite_sequence, aggTables, settings,
                 kv, now, views, task, counters, sidSeq, history>>

VacuumSystems ==
  /\ job = "systems"
  /\ systems' = {r \in systems : ~UnusedSystem(r)}
  /\ job' = "idle"
  /\ UNCHANGED <<paths, refs, browsers, sqlite_sequence, aggTables, settings,
                 kv, now, views, task, counters, sidSeq, history>>

----------------------------------------------------------------------------
(* Strings (JavaScript String and parseInt) *)

\* The characters first..last of str (1-based, both included), clipped to
\* the string as String.prototype.slice clips its arguments
Slice(str, first, last) ==
  LET lo == IF first < 1 THEN 1 ELSE first
      hi == IF last > Len(str) THEN Len(str) ELSE last
  IN IF lo > hi THEN "" ELSE SubSeq(str, lo, hi)

\* String.prototype.includes
Contains(str, pattern) ==
  \E i \in 1..(Len(str) - Len(pattern) + 1) :
    Slice(str, i, i + Len(pattern) - 1) = pattern

\* String.prototype.indexOf, 1-based; 0 when the pattern does not occur
IndexOf(str, pattern) ==
  IF Contains(str, pattern)
  THEN CHOOSE i \in 1..Len(str) :
         /\ Slice(str, i, i + Len(pattern) - 1) = pattern
         /\ \A j \in 1..(i - 1) : Slice(str, j, j + Len(pattern) - 1) # pattern
  ELSE 0

StartsWith(str, prefix) == Slice(str, 1, Len(prefix)) = prefix

UpperCase == "ABCDEFGHIJKLMNOPQRSTUVWXYZ"
LowerCase == "abcdefghijklmnopqrstuvwxyz"

\* The lower-case form of one character
LowerChar(c) ==
  IF c # "" /\ Contains(UpperCase, c)
  THEN Slice(LowerCase, IndexOf(UpperCase, c), IndexOf(UpperCase, c))
  ELSE c

\* String.prototype.toLowerCase, character by character (the string is
\* halved so that the evaluation stays shallow)
RECURSIVE toLowerCase(_)
toLowerCase(str) ==
  IF Len(str) <= 1 THEN LowerChar(str)
  ELSE toLowerCase(Slice(str, 1, Len(str) \div 2))
       \o toLowerCase(Slice(str, Len(str) \div 2 + 1, Len(str)))

Digits == "0123456789"
IsDigit(c) == c # "" /\ Contains(Digits, c)

\* The number of decimal digits str begins with
RECURSIVE LeadingDigits(_)
LeadingDigits(str) ==
  IF IsDigit(Slice(str, 1, 1))
  THEN 1 + LeadingDigits(Slice(str, 2, Len(str)))
  ELSE 0

\* The value of a string of decimal digits
RECURSIVE DigitsValue(_)
DigitsValue(str) ==
  IF str = "" THEN 0
  ELSE 10 * DigitsValue(Slice(str, 1, Len(str) - 1))
       + (IndexOf(Digits, Slice(str, Len(str), Len(str))) - 1)

NaN == Null

\* parseInt(str, 10): an optional sign and the leading digits; NaN when
\* there is none (the inputs carry no leading white space)
parseInt(str) ==
  LET signed == StartsWith(str, "-") \/ StartsWith(str, "+")
      body == IF signed THEN Slice(str, 2, Len(str)) ELSE str
      n == LeadingDigits(body)
      value == DigitsValue(Slice(body, 1, n))
  IN IF n = 0 THEN NaN
     ELSE Some(IF StartsWith(str, "-") THEN 0 - value ELSE value)

\* String.prototype.repeat
RECURSIVE Repeat(_, _)
Repeat(str, n) ==
  IF n = 0 THEN ""
  ELSE LET half == Repeat(str, n \div 2)
       IN half \o half \o (IF n % 2 = 1 THEN str ELSE "")

----------------------------------------------------------------------------
(* detectBot (db.ts:370-403) *)

botPatterns ==
  {"bot", "crawler", "spider", "scraper", "http",
   "curl", "wget", "python", "java/", "php/",
   "headless", "phantom", "selenium", "puppeteer",
   "googlebot", "bingbot", "yandex", "baidu",
   "facebookexternalhit", "twitterbot", "linkedinbot",
   "slackbot", "whatsapp", "telegram",
   "preview", "validator", "checker", "monitor"}

detectBot(ua) ==
  LET lowerUA == toLowerCase(ua)
  IN IF ua = "" THEN 100
     ELSE IF \E pattern \in botPatterns : Contains(lowerUA, pattern) THEN 150
     ELSE IF Len(ua) < 20 THEN 100
     ELSE IF ~Contains(lowerUA, "mozilla") /\ ~Contains(lowerUA, "opera")
          THEN 50
     ELSE 0

----------------------------------------------------------------------------
(* The hit endpoint: handleCount (count.ts:17-126, 203-231, 251-256) *)

\* The 43 bytes of the 1x1 transparent GIF
GIF ==
  <<71, 73, 70, 56, 57, 97, 1, 0,
    1, 0, 128, 0, 0, 255, 255, 255,
    0, 0, 0, 33, 249, 4, 1, 0,
    0, 0, 0, 44, 0, 0, 0, 0,
    1, 0, 1, 0, 0, 2, 2, 68,
    1, 0, 59>>

RESPONSE_HEADERS ==
  {<<"Content-Type", "image/gif">>,
   <<"Cache-Control", "no-store, no-cache, must-revalidate, private">>,
   <<"Access-Control-Allow-Origin", "*">>,
   <<"Access-Control-Allow-Methods", "GET, POST, OPTIONS">>,
   <<"Access-Control-Allow-Headers", "Content-Type">>}

gifResponse == [status |-> 200, body |-> GIF, headers |-> RESPONSE_HEADERS]

\* String.prototype.split
RECURSIVE Split(_, _)
Split(str, sep) ==
  LET i == IndexOf(str, sep)
  IN IF i = 0 THEN <<str>>
     ELSE <<Slice(str, 1, i - 1)>> \o Split(Slice(str, i + 1, Len(str)), sep)

\* new URLSearchParams(query): the name and value of each pair, in order
\* (the queries of the model need no percent-decoding)
URLSearchParams(query) ==
  LET pairs == SelectSeq(Split(query, "&"), LAMBDA pair : pair # "")
      entry(pair) ==
        LET i == IndexOf(pair, "=")
        IN IF i = 0 THEN <<pair, "">>
           ELSE <<Slice(pair, 1, i - 1), Slice(pair, i + 1, Len(pair))>>
  IN [k \in 1..Len(pairs) |-> entry(pairs[k])]

\* URLSearchParams.prototype.toString
RECURSIVE ParamsToString(_)
ParamsToString(params) ==
  IF params = <<>> THEN ""
  ELSE params[1][1] \o "=" \o params[1][2]
       \o (IF Len(params) = 1 THEN ""
           ELSE "&" \o ParamsToString(Tail(params)))

trackingParams ==
  {"utm_source", "utm_medium", "utm_campaign", "utm_term", "utm_content",
   "fbclid", "gclid", "msclkid", "ref", "_ga"}

cleanPath(path) ==
  LET rooted == IF StartsWith(path, "/") THEN path ELSE "/" \o path
      queryIndex == IndexOf(rooted, "?")
      basePath == Slice(rooted, 1, queryIndex - 1)
      query == Slice(rooted, queryIndex + 1, Len(rooted))
      params == SelectSeq(URLSearchParams(query),
                          LAMBDA param : param[1] \notin trackingParams)
      cleanQuery == ParamsToString(params)
  IN IF queryIndex = 0 THEN rooted
     ELSE IF cleanQuery # "" THEN basePath \o "?" \o cleanQuery
     ELSE basePath

\* One request to /api/count: the method, the query parameters as
\* parseParams reads them ("" when absent; r with what parseRef makes of
\* it), the User-Agent header with what parseUA makes of it, the
\* CF-Connecting-IP and X-Forwarded-For headers ("" when absent), and
\* request.cf: the bot management score (null when absent) and the country
HttpRequest(method, p, r, b, ua, score, cfIp, xff) ==
  [method |-> method, p |-> p, t |-> "Blog", r |-> r, e |-> "",
   s |-> "1280", b |-> b, userAgent |-> ua, cfConnectingIp |-> cfIp,
   xForwardedFor |-> xff, score |-> score, country |-> "CH"]

\* count.ts:98-100
ClientIp(h) ==
  IF h.cfConnectingIp # "" THEN h.cfConnectingIp
  ELSE IF h.xForwardedFor # "" THEN Split(h.xForwardedFor, ",")[1]
  ELSE "0.0.0.0"

\* A handler that skips a server score of 100 and more
handleCountScoreAtLeast(h) ==
  [response |-> gifResponse,
   waitUntil |->
     /\ h.p # "" /\ Len(h.p) <= 2048
     /\ ~(parseInt(IF h.b # "" THEN h.b ELSE "0") # NaN
          /\ Val(parseInt(IF h.b # "" THEN h.b ELSE "0")) > 0)
     /\ detectBot(h.userAgent.raw) < 100
     /\ ~(h.score # Null /\ Val(h.score) < 30)]

\* A handler without the path length limit
handleCountNoLimit(h) ==
  [response |-> gifResponse,
   waitUntil |->
     /\ h.p # ""
     /\ ~(parseInt(IF h.b # "" THEN h.b ELSE "0") # NaN
          /\ Val(parseInt(IF h.b # "" THEN h.b ELSE "0")) > 0)
     /\ detectBot(h.userAgent.raw) <= 100
     /\ ~(h.score # Null /\ Val(h.score) < 30)]

\* A handler that answers 400 when the path is missing
handleCountBadRequest(h) ==
  IF h.p = ""
  THEN [response |-> [status |-> 400, body |-> <<>>,
                      headers |-> RESPONSE_HEADERS],
        waitUntil |-> FALSE]
  ELSE [response |-> gifResponse,
        waitUntil |->
          /\ Len(h.p) <= 2048
          /\ ~(parseInt(IF h.b # "" THEN h.b ELSE "0") # NaN
               /\ Val(parseInt(IF h.b # "" THEN h.b ELSE "0")) > 0)
          /\ detectBot(h.userAgent.raw) <= 100
          /\ ~(h.score # Null /\ Val(h.score) < 30)]

\* handleCount (count.ts:63-110): the response, and whether processHit was
\* handed to waitUntil
handleCount(h) ==
  LET userAgent == h.userAgent.raw
      clientBot == parseInt(IF h.b # "" THEN h.b ELSE "0")
      serverBot == detectBot(userAgent)
      skip == [response |-> gifResponse, waitUntil |-> FALSE]
  IN IF h.p = "" THEN skip
     ELSE IF Len(h.p) > 2048 THEN skip
     ELSE IF (clientBot # NaN /\ Val(clientBot) > 0) \/ serverBot > 100
          THEN skip
     ELSE IF h.score # Null /\ Val(h.score) < 30 THEN skip
     ELSE [response |-> gifResponse, waitUntil |-> TRUE]

\* The classification steps of processHit before its first await
\* (count.ts:141-150, 163-168)
Classify(h) ==
  Request(cleanPath(h.p), h.t, h.e = "true" \/ h.e = "1", h.r, h.userAgent,
          ClientIp(h), IF h.s # "" THEN parseInt(h.s) ELSE Null, h.country)

\* The requests of SpecHttp
HttpRequests ==
  { HttpRequest("GET",  "/blog", REF_SITE, "", UA_FIREFOX, Null, "10.0.0.1", ""),
    HttpRequest("POST", "/blog", REF_NONE, "0", UA_SHORT, Some(30), "", ""),
    HttpRequest("GET",  "/" \o Repeat("x", 2047), REF_NONE, "abc", UA_LYNX, Some(99),
                "", "10.0.0.2, 172.16.0.1"),
    HttpRequest("POST", "pricing?utm_source=x&plan=pro", REF_NONE, "-1", UA_EMPTY,
                Null, "10.0.0.1", ""),
    HttpRequest("GET",  "", REF_NONE, "", UA_FIREFOX, Null, "10.0.0.1", ""),
    HttpRequest("POST", "/" \o Repeat("x", 2048), REF_NONE, "", UA_FIREFOX, Null,
                "10.0.0.1", ""),
    HttpRequest("GET",  "/blog", REF_NONE, "1", UA_FIREFOX, Null, "10.0.0.1", ""),
    HttpRequest("GET",  "/blog", REF_NONE, "", UA_GOOGLEBOT, Null, "10.0.0.1", ""),
    HttpRequest("POST", "/blog", REF_NONE, "", UA_FIREFOX, Some(29), "10.0.0.1", "") }

\* What handleCount and processHit compute for each of them
Handled == [h \in HttpRequests |-> handleCount(h)]
Classified == [h \in HttpRequests |-> Classify(h)]

\* A handler that stamps first_hit_at itself before it answers
HandleCountWritesFirst(t, h) ==
  /\ task[t].main = "idle"
  /\ settings' = [settings EXCEPT !.first_hit_at = Some(now)]
  /\ respLog' = Append(respLog,
       [request |-> h, response |-> gifResponse, waitUntil |-> FALSE,
        before |-> [paths |-> paths, hits |-> hits,
                    hit_counts |-> hit_counts, nRecorded |-> nRecorded]])
  /\ UNCHANGED <<idTables, aggTables, kv, now, task, job, counters, sidSeq,
                 history, report,
                 guard>>

\* A GET or POST to /api/count: handleCount answers and, when it accepted
\* the request, task t starts processHit.  The answer is logged with the
\* rows and counters of that moment.
HandleCount(t, h) ==
  /\ respLog' = Append(respLog,
       [request |-> h, response |-> Handled[h].response,
        waitUntil |-> Handled[h].waitUntil,
        before |-> [paths |-> paths, hits |-> hits,
                    hit_counts |-> hit_counts, nRecorded |-> nRecorded]])
  /\ IF Handled[h].waitUntil
     THEN ProcessHit(t, Classified[h])
     ELSE UNCHANGED <<idTables, aggTables, settings, kv, now, task, job,
                      counters, sidSeq, history, report,
                 guard>>

----------------------------------------------------------------------------
(* Period-over-period change (queries.ts:400-404, 447-455) *)

\* Math.round of the quotient n / d of two integers, d > 0: the nearest
\* integer, a half rounded up
MathRound(n, d) == (2 * n + d) \div (2 * d)

\* The quotient lies exactly half way between two integers
IsHalfWay(n, d) == (2 * n + d) % (2 * d) = 0

\* A variant that reports 0 when there is no previous total
ChangesZeroForNone(current, prevTotal) ==
  IF prevTotal > 0
  THEN {Some(MathRound((current - prevTotal) * 100, prevTotal))}
  ELSE {Some(0)}

\* prevTotal > 0 ? Math.round(((current - prevTotal) / prevTotal) * 100)
\* : null.  The source computes the quotient in double precision, which
\* settles a half-way case to either side; elsewhere the rounding error is
\* far below the distance to a half.
Changes(current, prevTotal) ==
  IF prevTotal > 0
  THEN LET n == (current - prevTotal) * 100
       IN {Some(MathRound(n, prevTotal))}
          \cup (IF IsHalfWay(n, prevTotal)
                THEN {Some(MathRound(n, prevTotal) - 1)} ELSE {})
  ELSE {Null}

\* The change of one pair of totals is computed and shown
Compare(current, prevTotal) ==
  /\ \E change \in Changes(current, prevTotal) :
       report' = Some([current |-> current, prevTotal |-> prevTotal,
                       change |-> change])
  /\ UNCHANGED <<idTables, aggTables, settings, kv, now, task, job,
                 counters, sidSeq, history, respLog,
                 guard>>

----------------------------------------------------------------------------
(* Dashboard reads (queries.ts:21-56, 423-477, 482-560) *)

\* Timestamps as text.  Date.prototype.toISOString writes
\* YYYY-MM-DDTHH:MM:SS.mmmZ, formatHour writes YYYY-MM-DDTHH:00:00Z without
\* milliseconds, and SQLite compares the two as text: the first 19
\* characters order like the seconds they spell, the 20th is "." or "Z",
\* and "." sorts before "Z".  A text is <<seconds, 20th character,
\* milliseconds>>.
toISOString(date) == <<date \div Second, ".", date % Second>>

\* The text formatHour stores in hit_counts.hour for the hour beginning at
\* the instant hour
HourText(hour) == <<hour \div Second, "Z", 0>>

\* new Date(text).getTime()
DateParse(text) == text[1] * Second + text[3]

\* text comparison a <= b of SQLite
TextLe(a, b) ==
  \/ a[1] < b[1]
  \/ a[1] = b[1] /\ a[2] = "." /\ b[2] = "Z"
  \/ a[1] = b[1] /\ a[2] = b[2] /\ a[3] <= b[3]

\* x >= start AND x <= end
Between(x, start, end) == TextLe(start, x) /\ TextLe(x, end)

\* The rows of hit_counts with hour >= start AND hour <= end
HourRows(start, end) ==
  {k \in DOMAIN hit_counts : Between(HourText(k[2]), start, end)}

\* getTotalHits (queries.ts:21-39): per hour the sum over the paths, and
\* the sum of the series
getTotalHits(start, end) ==
  LET rows == HourRows(start, end)
      times == {k[2] : k \in rows}
      timeSeries == [time \in times |->
                       Sum(hit_counts, {k \in rows : k[2] = time})]
  IN [total |-> Sum(timeSeries, times), timeSeries |-> timeSeries]

\* A count that leaves out the hits stamped exactly at end
getTotalVisitorsHalfOpen(start, end) ==
  Cardinality({h \in hits :
                 /\ TextLe(start, toISOString(h.created_at))
                 /\ toISOString(h.created_at) # end
                 /\ TextLe(toISOString(h.created_at), end)
                 /\ h.first_visit = 1})

\* getTotalVisitors (queries.ts:44-56)
getTotalVisitors(start, end) ==
  Cardinality({h \in hits :
                 /\ Between(toISOString(h.created_at), start, end)
                 /\ h.first_visit = 1})

\* A previous period that ends at the start of the current one
getPreviousPeriodTouching(start, end) ==
  [prevStart |-> toISOString(DateParse(start)
                             - (DateParse(end) - DateParse(start))),
   prevEnd |-> start]

\* getPreviousPeriod (queries.ts:462-477)
getPreviousPeriod(start, end) ==
  LET startDate == DateParse(start)
      endDate == DateParse(end)
      duration == endDate - startDate
      prevEndDate == startDate - 1
      prevStartDate == prevEndDate - duration
  IN [prevStart |-> toISOString(prevStartDate),
      prevEnd |-> toISOString(prevEndDate)]

\* parsePeriodExtended (queries.ts:503-507, 553-555) for the dates
\* period-start and period-end, counted in days: the first millisecond of
\* the one and the last of the other
parsePeriodExtended(customStart, customEnd) ==
  [start |-> toISOString(customStart * Day),
   end |-> toISOString(customEnd * Day + 23 * Hour + 59 * Minute
                       + 59 * Second + 999)]

\* getTotalsWithChange (queries.ts:423-457), the four reads taken on one
\* state of the database; previous holds the totals it compared with
getTotalsWithChange(start, end) ==
  LET prev == getPreviousPeriod(start, end)
      currentHits == getTotalHits(start, end)
      currentVisitors == getTotalVisitors(start, end)
      prevHits == getTotalHits(prev.prevStart, prev.prevEnd)
      prevVisitors == getTotalVisitors(prev.prevStart, prev.prevEnd)
  IN { [totalHits |-> currentHits.total, totalHitsChange |-> hitsChange,
        totalVisitors |-> currentVisitors,
        totalVisitorsChange |-> visitorsChange,
        previous |-> [prevStart |-> prev.prevStart, prevEnd |-> prev.prevEnd,
                      hits |-> prevHits.total, visitors |-> prevVisitors]] :
       hitsChange \in Changes(currentHits.total, prevHits.total),
       visitorsChange \in Changes(currentVisitors, prevVisitors) }

\* ORDER BY total DESC over the grouped rows: every order of the path ids
\* with totals descending (SQLite settles equal totals either way)
OrderByTotalDesc(totals) ==
  LET ids == DOMAIN totals
      n == Cardinality(ids)
  IN {ord \in [1..n -> ids] :
        /\ \A i, j \in 1..n : i # j => ord[i] # ord[j]
        /\ \A i, j \in 1..n : i < j => totals[ord[i]] >= totals[ord[j]]}

\* Array.prototype.slice(0, n)
Take(seq, n) == SubSeq(seq, 1, IF n < Len(seq) THEN n ELSE Len(seq))

\* A fetch of no more than limit rows
FetchedToLimit(ordered, limit) == Take(ordered, limit)

\* LIMIT ? bound to limit + 1 (queries.ts:341-342)
Fetched(ordered, limit) == Take(ordered, limit + 1)

\* The daily sums of one path over its rows, in the order of the days
Sparkline(rows, id) ==
  LET mine == {k \in rows : k[1] = id}
      days == {formatDay(k[2]) : k \in mine}
      count(day) == Sum(hit_counts, {k \in mine : formatDay(k[2]) = day})
      byDay == CHOOSE ord \in [1..Cardinality(days) -> days] :
                 \A i, j \in 1..Cardinality(days) : i < j => ord[i] < ord[j]
  IN [i \in 1..Cardinality(days) |-> count(byDay[i])]

\* getTopPagesWithChange (queries.ts:315-418), the four reads taken on one
\* state of the database: every result the order of equal totals and the
\* rounding of a change allow; prevTotals is the map the changes were
\* computed from
getTopPagesWithChange(start, end, limit) ==
  LET prev == getPreviousPeriod(start, end)
      rows == HourRows(start, end)
      joined == {k \in rows : \E p \in paths : p.path_id = k[1]}
      totals == [id \in {k[1] : k \in joined} |->
                   Sum(hit_counts, {k \in joined : k[1] = id})]
      totalCount == Cardinality({k[1] : k \in rows})
      prevRows == HourRows(prev.prevStart, prev.prevEnd)
      pathOf(id) == CHOOSE p \in paths : p.path_id = id
  IN UNION {
       LET results == Fetched(ordered, limit)
           hasMore == Len(results) > limit
           currentPages == Take(results, limit)
           pathIds == {currentPages[i] : i \in DOMAIN currentPages}
           prevTotals ==
             [id \in {k[1] : k \in {r \in prevRows : r[1] \in pathIds}} |->
                Sum(hit_counts, {k \in prevRows : k[1] = id})]
           prevTotal(id) ==
             IF id \in DOMAIN prevTotals THEN prevTotals[id] ELSE 0
       IN { [pages |->
               [i \in DOMAIN currentPages |->
                  LET id == currentPages[i]
                  IN [path_id |-> id, path |-> pathOf(id).path,
                      title |-> pathOf(id).title, event |-> pathOf(id).event,
                      total |-> totals[id], change |-> change[id],
                      sparkline |-> Sparkline(rows, id)]],
             hasMore |-> hasMore, totalCount |-> totalCount,
             prevTotals |-> prevTotals] :
            change \in {c \in [pathIds -> UNION {Changes(totals[id], prevTotal(id)) :
                                                  id \in pathIds}] :
                          \A id \in pathIds :
                            c[id] \in Changes(totals[id], prevTotal(id))} }
       : ordered \in OrderByTotalDesc(totals) }

\* GET / (functions/_middleware.ts:199-221): the period is parsed and the
\* top pages are read
LoadTopPages(customStart, customEnd, limit) ==
  LET period == parsePeriodExtended(customStart, customEnd)
  IN /\ \E top \in getTopPagesWithChange(period.start, period.end, limit) :
          report' = Some([start |-> period.start, end |-> period.end,
                          limit |-> limit, top |-> top])
     /\ UNCHANGED <<idTables, aggTables, settings, kv, now, task, job,
                    counters, sidSeq, history, respLog,
                 guard>>

\* GET / (functions/_middleware.ts:199-221): the period is parsed and the
\* totals are read
LoadTotals(customStart, customEnd) ==
  LET period == parsePeriodExtended(customStart, customEnd)
  IN /\ \E totals \in getTotalsWithChange(period.start, period.end) :
          report' = Some([start |-> period.start, end |-> period.end,
                          totals |-> totals])
     /\ UNCHANGED <<idTables, aggTables, settings, kv, now, task, job,
                    counters, sidSeq, history, respLog,
                 guard>>

----------------------------------------------------------------------------
(* Dashboard: the period of a request (queries.ts:482-560) *)

\* Math.ceil of the quotient n / d of two integers, d > 0
MathCeil(n, d) == (n + d - 1) \div d

\* Math.ceil((end.getTime() - start.getTime()) / (24 * 60 * 60 * 1000))
\* (queries.ts:550) for two instants given as text; the whole days are
\* taken from the seconds, the rest is rounded up
DaysApart(start, end) ==
  LET seconds == end[1] - start[1]
      rest == (seconds % (Day \div Second)) * Second + (end[3] - start[3])
  IN seconds \div (Day \div Second) + MathCeil(rest, Day)

\* The days the switch of queries.ts:512-546 steps back from today; an
\* unknown period name falls to the default branch
PeriodDays(periodParam) ==
  CASE periodParam = "day" -> 0
    [] periodParam = "week" -> 7
    [] periodParam = "month" -> 30
    [] periodParam = "quarter" -> 90
    [] periodParam = "half-year" -> 180
    [] periodParam = "year" -> 365
    [] OTHER -> 7

\* searchParams.get(name) || fallback: null and '' give the fallback
OrElse(param, fallback) ==
  IF param = Null \/ param = Some("") THEN fallback ELSE Val(param)

\* The query of a dashboard request: the parameters period and hl (null
\* when absent) and the dates period-start and period-end, counted in days
SearchParams(period, hl, customStart, customEnd) ==
  [period |-> period, hl |-> hl, customStart |-> customStart,
   customEnd |-> customEnd]

\* parsePeriodExtended (queries.ts:482-560) at the instant date
parsePeriodExtendedAt(searchParams, date) ==
  LET periodParam == OrElse(searchParams.period, "week")
      granularityParam == OrElse(searchParams.hl, "hour")
      customStart == searchParams.customStart
      customEnd == searchParams.customEnd
      today == (date \div Day) * Day
      range ==
        IF customStart # Null /\ customEnd # Null
        THEN parsePeriodExtended(Val(customStart), Val(customEnd))
        ELSE [start |-> <<today \div Second
                            - PeriodDays(periodParam) * (Day \div Second),
                          ".", 0>>,
              end |-> toISOString(today + 23 * Hour + 59 * Minute
                                  + 59 * Second + 999)]
      days == DaysApart(range.start, range.end)
      \* granularityParam || (days <= 7 ? 'hour' : 'day'): a text that is
      \* not empty is taken as it is
      granularity == IF granularityParam # "" THEN granularityParam
                     ELSE IF days <= 7 THEN "hour" ELSE "day"
  IN [start |-> range.start, end |-> range.end,
      period |-> IF customStart # Null THEN "custom" ELSE periodParam,
      granularity |-> granularity]

\* GET / (functions/_middleware.ts:203-204): the period of the request is
\* parsed
ParsePeriod(searchParams) ==
  /\ report' = Some([searchParams |-> searchParams, now |-> now,
                     parsed |-> parsePeriodExtendedAt(searchParams, now)])
  /\ UNCHANGED <<idTables, aggTables, settings, kv, now, task, job,
                 counters, sidSeq, history, respLog,
                 guard>>

----------------------------------------------------------------------------
(* Referrers: parseRef (src/lib/refs.ts) *)

REF_SCHEME_HTTP == "h"
REF_SCHEME_OTHER == "o"
REF_SCHEME_CAMPAIGN == "c"

\* Record<string, string> as a set of pairs, and its lookup; a name that is
\* not a key reads as undefined
Lookup(record, key) == {pair[2] : pair \in {x \in record : x[1] = key}}

GROUPS ==
  {<<"news.ycombinator.com", "Hacker News">>,
   <<"hn.algolia.com", "Hacker News">>,
   <<"hckrnews.com", "Hacker News">>,
   <<"hn.premii.com", "Hacker News">>,
   <<"hackerweb.app", "Hacker News">>,
   <<"quiethn.com", "Hacker News">>,
   <<"mail.google.com", "Email">>,
   <<"com.google.android.gm", "Email">>,
   <<"mail.yahoo.com", "Email">>,
   <<"outlook.live.com", "Email">>,
   <<"feedly.com", "RSS">>,
   <<"www.inoreader.com", "RSS">>,
   <<"usepanda.com", "RSS">>,
   <<"com.google.android.googlequicksearchbox", "Google">>,
   <<"com.andrewshu.android.reddit", "www.reddit.com">>,
   <<"com.laurencedawson.reddit_sync", "www.reddit.com">>,
   <<"m.facebook.com", "www.facebook.com">>,
   <<"l.facebook.com", "www.facebook.com">>,
   <<"lm.facebook.com", "www.facebook.com">>,
   <<"org.telegram.messenger", "Telegram">>,
   <<"com.slack", "Slack">>,
   <<"baidu.com", "Baidu">>,
   <<"m.baidu.com", "Baidu">>,
   <<"www.baidu.com", "Baidu">>,
   <<"tieba.baidu.com", "Baidu">>}

HOST_ALIASES ==
  {<<"en.m.wikipedia.org", "en.wikipedia.org">>,
   <<"m.facebook.com", "www.facebook.com">>,
   <<"old.reddit.com", "www.reddit.com">>,
   <<"i.reddit.com", "www.reddit.com">>,
   <<"np.reddit.com", "www.reddit.com">>,
   <<"www.reddit.com", "www.reddit.com">>}

TRACKING_PARAMS ==
  {"utm_source", "utm_medium", "utm_campaign", "utm_term", "utm_content",
   "fbclid", "gclid", "msclkid", "dclid", "mc_cid", "mc_eid",
   "__cf_chl_captcha_tk__", "__cf_chl_jschl_tk__", "ref", "source", "share"}

SPAM_PATTERNS ==
  {"semalt.com", "buttons-for-website.com", "event-tracking.com",
   "free-social-buttons.com", "get-free-traffic-now.com",
   "best-seo-offer.com", "best-seo-solution.com", "buy-cheap-online.info",
   "success-seo.com", "theguardlan.com", "fix-website-errors.com"}

\* String.prototype.endsWith
EndsWith(str, suffix) ==
  Len(suffix) <= Len(str)
  /\ Slice(str, Len(str) - Len(suffix) + 1, Len(str)) = suffix

\* The part of str before the first sep (all of str when there is none)
\* and the part after it ("" when there is none)
Before(str, sep) ==
  IF Contains(str, sep) THEN Slice(str, 1, IndexOf(str, sep) - 1) ELSE str
After(str, sep) ==
  IF Contains(str, sep)
  THEN Slice(str, IndexOf(str, sep) + Len(sep), Len(str))
  ELSE ""

\* The URL object of an address with the given scheme, host, path and query.
\* The constructor throws (null here) when the host is empty or holds a
\* space.
URLOf(protocol, host, path, query) ==
  IF host = "" \/ Contains(host, " ") THEN Null
  ELSE Some([protocol |-> protocol, host |-> host, pathname |-> "/" \o path,
             search |-> IF query = "" THEN "" ELSE "?" \o query])

\* new URL(href) for an http or https address without credentials, port or
\* fragment and without characters the parser escapes: the scheme and the
\* host in lower case, the path ("/" when there is none) and the query with
\* its "?" ("" when the query is empty).  The constructor throws when there
\* is no scheme.
URL(href) ==
  IF ~Contains(href, "://") THEN Null
  ELSE URLOf(toLowerCase(Before(href, "//")),
             toLowerCase(Before(Before(After(href, "://"), "?"), "/")),
             After(Before(After(href, "://"), "?"), "/"),
             After(After(href, "://"), "?"))

\* ref.startsWith('http') ? ref : `https://${ref}` (refs.ts:119, 217)
WithProtocol(ref) == IF StartsWith(ref, "http") THEN ref ELSE "https://" \o ref

\* stripProtocol (refs.ts:239-241): ref.replace(/^https?:\/\//, '')
stripProtocol(ref) ==
  IF StartsWith(ref, "https://") THEN Slice(ref, 9, Len(ref))
  ELSE IF StartsWith(ref, "http://") THEN Slice(ref, 8, Len(ref))
  ELSE ref

\* refs.ts:220-225: the parameters left after the tracking parameters are
\* deleted
WithoutTracking(params) ==
  SelectSeq(params, LAMBDA param : param[1] \notin TRACKING_PARAMS)

\* url.search after refs.ts:220-225; it is rewritten only when a parameter
\* was deleted
CleanSearch(search, params) ==
  IF WithoutTracking(params) = params THEN search
  ELSE IF WithoutTracking(params) = <<>> THEN ""
  ELSE "?" \o ParamsToString(WithoutTracking(params))

\* refs.ts:216-233 for the result of new URL (null when it threw)
cleanParsed(ref, url) ==
  IF url = Null THEN stripProtocol(ref)
  ELSE Val(url).host \o Val(url).pathname
       \o CleanSearch(Val(url).search,
                      URLSearchParams(Slice(Val(url).search, 2,
                                            Len(Val(url).search))))

\* cleanRef (refs.ts:211-234)
cleanRef(ref) ==
  IF ~Contains(ref, "?") THEN stripProtocol(ref)
  ELSE cleanParsed(ref, URL(WithProtocol(ref)))

\* The listing suffixes of refs.ts:188, in the order they are tried
RedditSuffixes == <<"/top", "/new", "/search", ".compact">>

\* refs.ts:187-193: the first suffix the path ends with is cut off
RECURSIVE StripSuffix(_, _)
StripSuffix(path, suffixes) ==
  IF suffixes = <<>> THEN path
  ELSE IF EndsWith(path, Head(suffixes))
       THEN Slice(path, 1, Len(path) - Len(Head(suffixes)))
       ELSE StripSuffix(path, Tail(suffixes))

\* refs.ts:141: HOST_ALIASES[host] || host
normalizeHost(host) ==
  IF Lookup(HOST_ALIASES, host) # {} THEN Val(Lookup(HOST_ALIASES, host))
  ELSE host

\* refs.ts:144-205 for the host in lower case and the host after aliasing
cleanHost(host, normalizedHost, url) ==
  IF Lookup(GROUPS, host) # {} THEN Val(Lookup(GROUPS, host))
  ELSE IF Lookup(GROUPS, normalizedHost) # {}
       THEN Val(Lookup(GROUPS, normalizedHost))
  ELSE IF StartsWith(host, "www.google.") \/ StartsWith(host, "google.")
       THEN "Google"
  ELSE IF Contains(host, "yandex.") THEN "Yandex"
  ELSE IF Contains(host, "search.yahoo.") THEN "Yahoo"
  ELSE IF Contains(host, "bing.com") THEN "Bing"
  ELSE IF Contains(host, "duckduckgo.") THEN "DuckDuckGo"
  ELSE IF host = "t.co" /\ Len(url.pathname) > 1
       THEN "twitter.com/search?q=https://t.co" \o url.pathname
  ELSE IF host = "lobste.rs" /\ ~StartsWith(url.pathname, "/s/")
       THEN "lobste.rs"
  ELSE IF host = "www.reddit.com" \/ host = "reddit.com"
       THEN "www.reddit.com" \o StripSuffix(url.pathname, RedditSuffixes)
  ELSE IF host = "getpocket.com" \/ host = "app.getpocket.com"
       THEN "getpocket.com"
  ELSE cleanRef(normalizedHost \o url.pathname \o url.search)

\* cleanRefURL (refs.ts:136-206)
cleanRefURL(originalRef, url) ==
  cleanHost(toLowerCase(url.host), normalizeHost(toLowerCase(url.host)), url)

\* refs.ts:116-130 for the result of new URL (null when it threw)
parseURL(ref, url) ==
  IF url = Null
  THEN [ref |-> Slice(ref, 1, 200), scheme |-> REF_SCHEME_OTHER]
  ELSE [ref |-> cleanRefURL(ref, Val(url)),
        scheme |-> IF StartsWith(Val(url).protocol, "http")
                   THEN REF_SCHEME_HTTP ELSE REF_SCHEME_OTHER]

\* A variant of parseRef that looks for the campaign marker before the
\* spam list
parseRefCampaignFirst(ref) ==
  LET lowerRef == toLowerCase(ref)
  IN IF ref = "" THEN [ref |-> "", scheme |-> REF_SCHEME_OTHER]
     ELSE IF Contains(ref, "utm_") \/ Contains(ref, "campaign")
          THEN [ref |-> cleanRef(ref), scheme |-> REF_SCHEME_CAMPAIGN]
     ELSE IF \E spam \in SPAM_PATTERNS : Contains(lowerRef, spam)
          THEN [ref |-> "", scheme |-> REF_SCHEME_OTHER]
     ELSE parseURL(ref, URL(WithProtocol(ref)))

\* parseRef (refs.ts:96-131)
parseRef(ref) ==
  LET lowerRef == toLowerCase(ref)
  IN IF ref = "" THEN [ref |-> "", scheme |-> REF_SCHEME_OTHER]
     ELSE IF \E spam \in SPAM_PATTERNS : Contains(lowerRef, spam)
          THEN [ref |-> "", scheme |-> REF_SCHEME_OTHER]
     ELSE IF Contains(ref, "utm_") \/ Contains(ref, "campaign")
          THEN [ref |-> cleanRef(ref), scheme |-> REF_SCHEME_CAMPAIGN]
     ELSE parseURL(ref, URL(WithProtocol(ref)))

\* The referrers of SpecRef: a protocol or none, a host, a path and a query
RefProtocols == {"https://", "http://", ""}
RefHosts ==
  {"old.reddit.com", "i.reddit.com", "np.reddit.com", "www.reddit.com",
   "reddit.com", "en.m.wikipedia.org", "news.ycombinator.com",
   "www.google.de", "lobste.rs", "Example.com", "semalt.com",
   "Best-SEO-Offer.com", "not a host"}
RefPaths ==
  {"", "/r/test", "/r/test/top", "/r/test/new", "/r/test/search",
   "/r/test.compact", "/s/abc"}
RefQueries == {"", "?utm_source=news", "?page=2", "?ref=x&page=2"}

\* The referrers of SpecRef with what parseRef makes of each
Referrers ==
  {protocol \o host \o path \o query :
     protocol \in RefProtocols, host \in RefHosts, path \in RefPaths,
     query \in RefQueries} \cup {""}
ParsedRefs == [ref \in Referrers |-> parseRef(ref)]

\* The r parameter of a hit is parsed
ParseRef(ref) ==
  /\ report' = Some([r |-> ref, refData |-> ParsedRefs[ref]])
  /\ UNCHANGED <<idTables, aggTables, settings, kv, now, task, job,
                 counters, sidSeq, history, respLog,
                 guard>>

----------------------------------------------------------------------------
(* User agents: parseUA (db.ts:179-362) *)

\* The least and the greatest element of a set of positions, 0 for none
Least(S) == IF S = {} THEN 0 ELSE CHOOSE k \in S : \A l \in S : k <= l
Greatest(S) == IF S = {} THEN 0 ELSE CHOOSE k \in S : \A l \in S : l <= k

\* (?:\.\d+)? at the head of str: the length of a dot and the digits after
\* it, 0 when str does not begin with a dot and a digit
FractionLength(str) ==
  IF Slice(str, 1, 1) = "." /\ IsDigit(Slice(str, 2, 2))
  THEN 1 + LeadingDigits(Slice(str, 2, Len(str)))
  ELSE 0

\* (\d+(?:\.\d+)?) at the head of str: the digits and, when a dot and a
\* digit follow, the dot and the digits after it
MajorMinor(str) ==
  Slice(str, 1, LeadingDigits(str)
                + FractionLength(Slice(str, LeadingDigits(str) + 1, Len(str))))

\* The length of the run of digits and underscores str begins with
RECURSIVE LeadingUnderscored(_)
LeadingUnderscored(str) ==
  IF IsDigit(Slice(str, 1, 1)) \/ Slice(str, 1, 1) = "_"
  THEN 1 + LeadingUnderscored(Slice(str, 2, Len(str)))
  ELSE 0

\* (\d+[_\d]*) at the head of str
Underscored(str) == Slice(str, 1, LeadingUnderscored(str))

\* String.prototype.replace(/_/g, '.')
RECURSIVE ReplaceUnderscores(_)
ReplaceUnderscores(str) ==
  IF str = "" THEN ""
  ELSE (IF Slice(str, 1, 1) = "_" THEN "." ELSE Slice(str, 1, 1))
       \o ReplaceUnderscores(Slice(str, 2, Len(str)))

\* The last position of str where "OS " stands before a digit (the .* of
\* the iOS pattern is greedy); 0 when there is none
LastOS(str) ==
  Greatest({i \in 1..Len(str) : /\ Slice(str, i, i + 2) = "OS "
                                /\ IsDigit(Slice(str, i + 3, i + 3))})

\* What the patterns of parseBrowser and parseOS ask of the text after
\* their token:
\*   "version"  (\d+(?:\.\d+)?)          a digit
\*   "dotted"   (\d+\.\d+)               digits, a dot and a digit
\*   "safari"   (\d+(?:\.\d+)?).*Safari  a version and, later, Safari
\*   "os"       .*OS (\d+[_\d]*)         "OS " and a digit, somewhere
Follows(pattern, rest) ==
  CASE pattern = "version" -> IsDigit(Slice(rest, 1, 1))
    [] pattern = "dotted" ->
         /\ IsDigit(Slice(rest, 1, 1))
         /\ FractionLength(Slice(rest, LeadingDigits(rest) + 1, Len(rest))) > 0
    [] pattern = "safari" ->
         /\ IsDigit(Slice(rest, 1, 1))
         /\ Contains(Slice(rest, Len(MajorMinor(rest)) + 1, Len(rest)),
                     "Safari")
    [] pattern = "os" -> LastOS(rest) # 0

\* String.prototype.match without the g flag: the first position of str
\* where one of the tokens stands and the text after it is as the pattern
\* asks (the leftmost match); the result is the position after the token,
\* 0 when nothing matches
Search(str, tokens, pattern) ==
  Least({x[1] + Len(x[2]) : x \in
           {y \in (1..Len(str)) \X tokens :
              /\ Slice(str, y[1], y[1] + Len(y[2]) - 1) = y[2]
              /\ Follows(pattern, Slice(str, y[1] + Len(y[2]), Len(str)))}})

\* match[1] for a match whose group begins at position k: the version
\* there, null when nothing matched (k = 0)
Version(ua, k) ==
  IF k = 0 THEN Null ELSE Some(MajorMinor(Slice(ua, k, Len(ua))))

\* match[1] of the patterns with the group (\d+[_\d]*)
UnderscoredVersion(ua, k) ==
  IF k = 0 THEN Null ELSE Some(Underscored(Slice(ua, k, Len(ua))))

\* ua.match(/token(\d+(?:\.\d+)?)/) for the tokens of an alternation
MatchVersion(ua, tokens) == Version(ua, Search(ua, tokens, "version"))

\* ua.match(/Version\/(\d+(?:\.\d+)?).*Safari/)
MatchSafariVersion(ua) == Version(ua, Search(ua, {"Version/"}, "safari"))

\* The group of the iOS pattern in the text after the device name
AfterDevice(rest) == UnderscoredVersion(rest, LastOS(rest) + 3)

\* ua.match(/(?:iPhone|iPad|iPod).*OS (\d+[_\d]*)/) with the device name
\* ending before position k
AtDevice(ua, k) ==
  IF k = 0 THEN Null ELSE AfterDevice(Slice(ua, k, Len(ua)))

MatchIOS(ua) == AtDevice(ua, Search(ua, {"iPhone", "iPad", "iPod"}, "os"))

\* ua.match(/Windows NT (\d+\.\d+)/)
MatchWindowsNT(ua) == Version(ua, Search(ua, {"Windows NT "}, "dotted"))

\* ua.match(/Mac OS X (\d+[_\d]*)/)
MatchMacOS(ua) ==
  UnderscoredVersion(ua, Search(ua, {"Mac OS X "}, "version"))

windowsNTVersionMap ==
  {<<"10.0", "10">>, <<"6.3", "8.1">>, <<"6.2", "8">>, <<"6.1", "7">>,
   <<"6.0", "Vista">>, <<"5.1", "XP">>, <<"5.0", "2000">>}

\* record[key] || fallback
LookupOr(record, key, fallback) ==
  IF Lookup(record, key) # {} THEN Val(Lookup(record, key)) ELSE fallback

NameVersion(name, version) == [name |-> name, version |-> version]

\* A chain of tests that looks for Chrome before Edge, Opera, Samsung
\* Browser, UC Browser, Brave and Firefox
BrowserOfChromeFirst(ua, edge, opera, samsung, uc, firefox, chrome, chromium,
                     safari, ie, curl, wget) ==
  IF chrome # Null /\ ~Contains(ua, "Chromium")
       THEN NameVersion("Chrome", Val(chrome))
  ELSE IF edge # Null THEN NameVersion("Edge", Val(edge))
  ELSE IF opera # Null THEN NameVersion("Opera", Val(opera))
  ELSE IF samsung # Null THEN NameVersion("Samsung Browser", Val(samsung))
  ELSE IF uc # Null THEN NameVersion("UC Browser", Val(uc))
  ELSE IF Contains(ua, "Brave") /\ chrome # Null
       THEN NameVersion("Brave", Val(chrome))
  ELSE IF firefox # Null THEN NameVersion("Firefox", Val(firefox))
  ELSE IF chromium # Null THEN NameVersion("Chromium", Val(chromium))
  ELSE IF safari # Null THEN NameVersion("Safari", Val(safari))
  ELSE IF Contains(ua, "Safari") /\ ~Contains(ua, "Chrome")
       THEN NameVersion("Safari", "")
  ELSE IF ie # Null /\ Contains(ua, "Trident")
       THEN NameVersion("Internet Explorer", Val(ie))
  ELSE IF curl # Null THEN NameVersion("curl", Val(curl))
  ELSE IF wget # Null THEN NameVersion("Wget", Val(wget))
  ELSE NameVersion("", "")

\* The chain of tests of parseBrowser (db.ts:207-285) on the results of its
\* pattern matches, each null or the version it captured
BrowserOf(ua, edge, opera, samsung, uc, firefox, chrome, chromium, safari,
          ie, curl, wget) ==
  IF edge # Null THEN NameVersion("Edge", Val(edge))
  ELSE IF opera # Null THEN NameVersion("Opera", Val(opera))
  ELSE IF samsung # Null THEN NameVersion("Samsung Browser", Val(samsung))
  ELSE IF uc # Null THEN NameVersion("UC Browser", Val(uc))
  ELSE IF Contains(ua, "Brave") /\ chrome # Null
       THEN NameVersion("Brave", Val(chrome))
  ELSE IF firefox # Null THEN NameVersion("Firefox", Val(firefox))
  ELSE IF chrome # Null /\ ~Contains(ua, "Chromium")
       THEN NameVersion("Chrome", Val(chrome))
  ELSE IF chromium # Null THEN NameVersion("Chromium", Val(chromium))
  ELSE IF safari # Null THEN NameVersion("Safari", Val(safari))
  ELSE IF Contains(ua, "Safari") /\ ~Contains(ua, "Chrome")
       THEN NameVersion("Safari", "")
  ELSE IF ie # Null /\ Contains(ua, "Trident")
       THEN NameVersion("Internet Explorer", Val(ie))
  ELSE IF curl # Null THEN NameVersion("curl", Val(curl))
  ELSE IF wget # Null THEN NameVersion("Wget", Val(wget))
  ELSE NameVersion("", "")

\* A parseBrowser that looks for Chrome first
parseBrowserChromeFirst(ua) ==
  BrowserOfChromeFirst(ua,
                       MatchVersion(ua, {"Edg/", "Edge/", "EdgA/", "EdgiOS/"}),
                       MatchVersion(ua, {"OPR/", "Opera/"}),
                       MatchVersion(ua, {"SamsungBrowser/"}),
                       MatchVersion(ua, {"UCBrowser/"}),
                       MatchVersion(ua, {"Firefox/"}),
                       MatchVersion(ua, {"Chrome/"}),
                       MatchVersion(ua, {"Chromium/"}),
                       MatchSafariVersion(ua),
                       MatchVersion(ua, {"MSIE ", "rv:"}),
                       MatchVersion(ua, {"curl/"}),
                       MatchVersion(ua, {"Wget/"}))

\* parseBrowser (db.ts:203-286)
parseBrowser(ua) ==
  BrowserOf(ua,
            MatchVersion(ua, {"Edg/", "Edge/", "EdgA/", "EdgiOS/"}),
            MatchVersion(ua, {"OPR/", "Opera/"}),
            MatchVersion(ua, {"SamsungBrowser/"}),
            MatchVersion(ua, {"UCBrowser/"}),
            MatchVersion(ua, {"Firefox/"}),
            MatchVersion(ua, {"Chrome/"}),
            MatchVersion(ua, {"Chromium/"}),
            MatchSafariVersion(ua),
            MatchVersion(ua, {"MSIE ", "rv:"}),
            MatchVersion(ua, {"curl/"}),
            MatchVersion(ua, {"Wget/"}))

\* The chain of tests of parseOS (db.ts:293-350) on the results of its
\* pattern matches
SystemOf(ua, ios, android, windows, macos, ubuntu) ==
  IF ios # Null THEN NameVersion("iOS", ReplaceUnderscores(Val(ios)))
  ELSE IF android # Null THEN NameVersion("Android", Val(android))
  ELSE IF windows # Null
       THEN NameVersion("Windows",
                        LookupOr(windowsNTVersionMap, Val(windows), Val(windows)))
  ELSE IF Contains(ua, "Windows") THEN NameVersion("Windows", "")
  ELSE IF macos # Null
       THEN NameVersion("macOS", ReplaceUnderscores(Val(macos)))
  ELSE IF Contains(ua, "Macintosh") \/ Contains(ua, "Mac OS")
       THEN NameVersion("macOS", "")
  ELSE IF Contains(ua, "Ubuntu")
       THEN NameVersion("Ubuntu", IF ubuntu # Null THEN Val(ubuntu) ELSE "")
  ELSE IF Contains(ua, "Fedora") THEN NameVersion("Fedora", "")
  ELSE IF Contains(ua, "Linux") THEN NameVersion("Linux", "")
  ELSE IF Contains(ua, "CrOS") THEN NameVersion("Chrome OS", "")
  ELSE IF Contains(ua, "FreeBSD") THEN NameVersion("FreeBSD", "")
  ELSE NameVersion("", "")

\* parseOS (db.ts:291-351)
parseOS(ua) ==
  SystemOf(ua, MatchIOS(ua), MatchVersion(ua, {"Android "}),
           MatchWindowsNT(ua), MatchMacOS(ua), MatchVersion(ua, {"Ubuntu/"}))

\* The ParsedUA of db.ts:187-192, with the header it was parsed from
ParsedUA(ua, browser, os) ==
  [raw |-> ua, browserName |-> browser.name, browserVersion |-> browser.version,
   osName |-> os.name, osVersion |-> os.version]

\* parseUA (db.ts:179-193)
parseUA(ua) ==
  IF ua = "" THEN ParsedUA(ua, NameVersion("", ""), NameVersion("", ""))
  ELSE ParsedUA(ua, parseBrowser(ua), parseOS(ua))

\* The User-Agent headers of SpecUA: "Mozilla/5.0", a platform in
\* parentheses and the product tokens of a browser, as browsers send them,
\* and two command-line clients.  Several carry the tokens of more than one
\* rule.
UaPlatforms ==
  {"(Windows NT 10.0; Win64; x64)",
   "(Windows NT 6.1; Trident/7.0; rv:11.0)",
   "(Macintosh; Intel Mac OS X 10_15_7)",
   "(iPhone; CPU iPhone OS 17_2_1 like Mac OS X)",
   "(iPad; CPU OS 16_6 like Mac OS X)",
   "(Linux; Android 14; SM-S918B)",
   "(X11; Ubuntu; Linux x86_64; rv:122.0)",
   "(X11; CrOS x86_64 14541.0.0)"}
UaProducts ==
  {"Gecko/20100101 Firefox/122.0",
   "like Gecko",
   "AppleWebKit/537.36 (KHTML, like Gecko) Chrome/120.0.0.0 Safari/537.36",
   "AppleWebKit/537.36 (KHTML, like Gecko) Chrome/120.0.0.0 Safari/537.36 Edg/120.0.2210.91",
   "AppleWebKit/537.36 (KHTML, like Gecko) Chrome/120.0.0.0 Safari/537.36 OPR/106.0.0.0",
   "AppleWebKit/537.36 (KHTML, like Gecko) SamsungBrowser/23.0 Chrome/115.0.0.0 Mobile Safari/537.36",
   "AppleWebKit/537.36 (KHTML, like Gecko) Chrome/100.0.4896.58 UCBrowser/13.4.0.1306 Mobile Safari/537.36",
   "AppleWebKit/537.36 (KHTML, like Gecko) Brave Chrome/120.0.0.0 Safari/537.36",
   "AppleWebKit/537.36 (KHTML, like Gecko) Ubuntu Chromium/120.0.0.0 Chrome/120.0.0.0 Safari/537.36",
   "AppleWebKit/605.1.15 (KHTML, like Gecko) Version/17.2 Mobile/15E148 Safari/604.1",
   "AppleWebKit/605.1.15 (KHTML, like Gecko) Mobile/15E148 Safari/604.1",
   "AppleWebKit/605.1.15 (KHTML, like Gecko) CriOS/120.0.6099.119 Mobile/15E148 Safari/604.1",
   "AppleWebKit/605.1.15 (KHTML, like Gecko) EdgiOS/120.0.2210.126 Version/17.0 Mobile/15E148 Safari/604.1",
   "AppleWebKit/605.1.15 (KHTML, like Gecko) FxiOS/122.0 Mobile/15E148 Safari/605.1.15",
   "Firefox/115.0 Chrome/120.0.0.0 Safari/537.36 OPR/106.0 Edg/120.0"}
UserAgents ==
  {"Mozilla/5.0 " \o platform \o " " \o product :
     platform \in UaPlatforms, product \in UaProducts}
  \cup {"curl/8.4.0", "Wget/1.21.4", "Mozilla/5.0", ""}

\* What parseUA makes of each of them
ParsedUAs == [ua \in UserAgents |-> parseUA(ua)]

\* The User-Agent header of a hit is parsed (count.ts:142)
ParseUA(ua) ==
  /\ report' = Some([userAgent |-> ua, parsed |-> ParsedUAs[ua]])
  /\ UNCHANGED <<idTables, aggTables, settings, kv, now, task, job,
                 counters, sidSeq, history, respLog,
                 guard>>

----------------------------------------------------------------------------
(* Hits as they arrive: the r parameter and the User-Agent header unparsed *)

UA_IPHONE ==
  "Mozilla/5.0 (iPhone; CPU iPhone OS 17_2_1 like Mac OS X) "
  \o "AppleWebKit/605.1.15 (KHTML, like Gecko) Version/17.2 "
  \o "Mobile/15E148 Safari/604.1"
UA_EDGE ==
  "Mozilla/5.0 (Windows NT 10.0; Win64; x64) AppleWebKit/537.36 "
  \o "(KHTML, like Gecko) Chrome/120.0.0.0 Safari/537.36 Edg/120.0.2210.91"

\* The ParsedRef of refs.ts:96-131, with the parameter it was parsed from
ParsedRef(r, parsed) == [raw |-> r, ref |-> parsed.ref, scheme |-> parsed.scheme]

\* A GET to /api/count with the parameters p and r, the User-Agent header
\* and the CF-Connecting-IP and X-Forwarded-For headers ("" when absent);
\* processHit parses r and the User-Agent header (count.ts:141, 144)
RawHit(p, r, userAgent, cfIp, xff) ==
  HttpRequest("GET", p, ParsedRef(r, parseRef(r)), "", parseUA(userAgent),
              Null, cfIp, xff)

\* A header with the separator of the hashed text in it
UA_BAR == "Mozilla/5.0 (compatible; A|B) Firefox/115.0"

\* The requests of SpecRaw: two spam referrers (one in capitals with a
\* campaign marker), a campaign link, an aliased host and no referrer; two
\* clients, of which one uses three browsers and is once named by
\* CF-Connecting-IP and once by the first entry of X-Forwarded-For
RawInputs ==
  { <<"/a", "https://semalt.com/project", UA_FIREFOX.raw, "10.0.0.1", "">>,
    <<"/a", "http://WWW.Best-SEO-Offer.com/?utm_source=mail&campaign=x",
      UA_FIREFOX.raw, "10.0.0.2", "">>,
    <<"/a", "https://news.example/?utm_campaign=spring", UA_IPHONE,
      "10.0.0.2", "">>,
    <<"/b", "https://old.reddit.com/r/test/top", UA_EDGE, "10.0.0.1", "">>,
    <<"/b", "", UA_EDGE, "", "10.0.0.1,172.16.0.9">>,
    <<"/b", "", UA_BAR, "", "10.0.0.1">> }
RawHits == {RawHit(x[1], x[2], x[3], x[4], x[5]) : x \in RawInputs}

\* What handleCount and processHit compute for each of them
RawHandled == [h \in RawHits |-> handleCount(h)]
RawClassified == [h \in RawHits |-> Classify(h)]

\* A GET to /api/count that handleCount accepts: task t starts processHit
ReceiveHit(t, h) ==
  /\ RawHandled[h].waitUntil
  /\ ProcessHit(t, RawClassified[h])
  /\ UNCHANGED respLog

----------------------------------------------------------------------------
(* The auth guard: onRequest (functions/_middleware.ts:9-161) *)

SESSION_COOKIE == "gc_session"

\* SESSION_TTL of _middleware.ts:13, 7 days (expirationTtl is in seconds,
\* the clock in ms); session.ts has a SESSION_TTL of its own
AUTH_SESSION_TTL == 7 * 24 * 60 * 60 * Second

\* env.DASHBOARD_PASSWORD
DASHBOARD_PASSWORD == "secret"

PUBLIC_PATHS == {"/api/count", "/count.js", "/login", "/favicon.ico"}

STATIC_EXTENSIONS ==
  {".js", ".css", ".png", ".jpg", ".gif", ".ico", ".svg", ".woff", ".woff2"}

isPublicPath(pathname) ==
  \E path \in PUBLIC_PATHS : StartsWith(pathname, path)

isStaticAsset(pathname) ==
  \E ext \in STATIC_EXTENSIONS : EndsWith(pathname, ext)

\* String.prototype.trim (the headers of the model hold no other white
\* space than the blank)
RECURSIVE trim(_)
trim(str) ==
  IF StartsWith(str, " ") THEN trim(Slice(str, 2, Len(str)))
  ELSE IF EndsWith(str, " ") THEN trim(Slice(str, 1, Len(str) - 1))
  ELSE str

\* The loop of parseCookie: the first cookie of that name, with all that
\* follows its first '='
RECURSIVE FirstCookie(_, _)
FirstCookie(cookies, name) ==
  IF cookies = <<>> THEN Null
  ELSE IF Before(trim(Head(cookies)), "=") = name
       THEN Some(After(trim(Head(cookies)), "="))
  ELSE FirstCookie(Tail(cookies), name)

parseCookie(cookieHeader, name) ==
  IF cookieHeader = Null \/ cookieHeader = Some("") THEN Null
  ELSE FirstCookie(Split(Val(cookieHeader), ";"), name)

\* atob on the texts of the model: the decoded text of each that is a
\* base64 encoding, null for one on which atob throws
Base64 ==
  [YWRtaW46c2VjcmV0 |-> "admin:secret",
   OnNlY3JldA |-> ":secret",
   YWRtaW46d3Jvbmc |-> "admin:wrong",
   YWRtaW46c2VjcmV0Ong |-> "admin:secret:x",
   c2VjcmV0 |-> "secret"]

\* atob takes an encoding with or without its padding
Unpadded(str) ==
  IF EndsWith(str, "==") THEN Slice(str, 1, Len(str) - 2)
  ELSE IF EndsWith(str, "=") THEN Slice(str, 1, Len(str) - 1)
  ELSE str

atob(encoded) ==
  IF Unpadded(encoded) \in DOMAIN Base64 THEN Some(Base64[Unpadded(encoded)])
  ELSE Null

\* The test of validateBasicAuth once the header is split at the blanks
\* and the credentials are decoded
PasswordMatches(decoded, password) ==
  /\ decoded # Null
  /\ Len(Split(Val(decoded), ":")) >= 2
  /\ Split(Val(decoded), ":")[2] = password

SchemeMatches(parts, password) ==
  /\ toLowerCase(parts[1]) = "basic"
  /\ Len(parts) >= 2
  /\ PasswordMatches(atob(parts[2]), password)

validateBasicAuth(authHeader, password) ==
  password # "" /\ SchemeMatches(Split(authHeader, " "), password)

\* The key validateSession reads and createSession writes
AuthKey(token) == <<"auth:", token>>

\* kv.get(`auth:${token}`) !== null
validateSession(token) == AuthKey(token) \in DOMAIN kv

\* generateToken: 32 random bytes in hex; these are the tokens it may give
Tokens == {"t1", "t2"}

\* One request as the guard sees it: the path of its URL and its Cookie
\* and Authorization headers (null when absent), with what the client put
\* into them: the token of its session cookie and the password of its
\* Basic credentials (null when it sent none)
GuardRequest(pathname, cookie, authorization) ==
  [pathname |-> pathname, cookie |-> cookie[1],
   authorization |-> authorization[1],
   sent |-> [token |-> cookie[2], password |-> authorization[2]]]

GuardPaths ==
  {"/", "/dashboard/pages", "/logout", "/api/stats", "/api/count",
   "/api/countries", "/login", "/count.js", "/dashboard.css"}

\* Cookie headers, each with the session token it carries
GuardCookies ==
  { <<Null, Null>>,
    <<Some("gc_session=t1"), Some("t1")>>,
    <<Some("theme=dark; gc_session=t2"), Some("t2")>>,
    <<Some("xgc_session=t1"), Null>> }

\* Authorization headers, each with the password it carries (of Basic
\* credentials user-id:password, the text after the first colon)
GuardAuthorizations ==
  { <<Null, Null>>,
    <<Some("Basic YWRtaW46c2VjcmV0"), Some("secret")>>,
    <<Some("basic OnNlY3JldA=="), Some("secret")>>,
    <<Some("Basic YWRtaW46d3Jvbmc="), Some("wrong")>>,
    <<Some("Basic YWRtaW46c2VjcmV0Ong="), Some("secret:x")>>,
    <<Some("Basic c2VjcmV0"), Null>>,
    <<Some("Basic %%%"), Null>>,
    <<Some("Bearer secret"), Null>> }

GuardRequests ==
  {GuardRequest(pathname, cookie, authorization) :
     pathname \in GuardPaths, cookie \in GuardCookies,
     authorization \in GuardAuthorizations}

\* What parseCookie and validateBasicAuth make of each request
SessionTokens ==
  [request \in GuardRequests |-> parseCookie(request.cookie, SESSION_COOKIE)]

BasicAuthValid ==
  [request \in GuardRequests |->
     /\ request.authorization # Null
     /\ request.authorization # Some("")
     /\ validateBasicAuth(Val(request.authorization), DASHBOARD_PASSWORD)]

Allowed ==
  [request \in GuardRequests |->
     isPublicPath(request.pathname) \/ isStaticAsset(request.pathname)]

\* No request in hand
IdleGuard ==
  [stage |-> "idle", request |-> Null, store |-> {}, newSession |-> Null,
   next |-> FALSE, answer |-> "", setCookie |-> Null]

\* onRequest returns.  next: next() was called, the request went on to its
\* route handler; answer: what the guard itself answered when it was not;
\* store: the keys the session store held when validateSession read it
Answered(request, store, next, answer, setCookie) ==
  [stage |-> "answered", request |-> Some(request), store |-> store,
   newSession |-> Null, next |-> next, answer |-> answer,
   setCookie |-> setCookie]

\* 302 to /login for the dashboard, 401 with a Basic challenge otherwise
Unauthorized(pathname) ==
  IF pathname = "/" \/ StartsWith(pathname, "/dashboard")
  THEN "302 /login"
  ELSE "401 Unauthorized"

\* _middleware.ts:51-84: the Authorization header is looked at when no
\* valid session cookie was found
CheckBasicAuth(request, store) ==
  IF BasicAuthValid[request]
  THEN [IdleGuard EXCEPT !.stage = "createSession",
                         !.request = Some(request), !.store = store]
  ELSE Answered(request, store, FALSE, Unauthorized(request.pathname), Null)

\* _middleware.ts:40-49 up to the await of validateSession
CheckSessionCookie(request, sessionToken) ==
  IF sessionToken # Null /\ sessionToken # Some("")
  THEN [IdleGuard EXCEPT !.stage = "validateSession",
                         !.request = Some(request)]
  ELSE CheckBasicAuth(request, {})

\* onRequest is called (_middleware.ts:26-45)
OnRequest(request) ==
  /\ guard.stage \in {"idle", "answered"}
  /\ guard' =
       IF Allowed[request]
       THEN Answered(request, {}, TRUE, "", Null)
       ELSE CheckSessionCookie(request, SessionTokens[request])
  /\ UNCHANGED <<idTables, aggTables, settings, kv, now, task, job, counters,
                 sidSeq, history, respLog, report>>

\* await validateSession(env.SESSIONS, sessionToken) returns
ValidateSession ==
  /\ guard.stage = "validateSession"
  /\ guard' =
       IF validateSession(Val(SessionTokens[Val(guard.request)]))
       THEN Answered(Val(guard.request), DOMAIN kv, TRUE, "", Null)
       ELSE CheckBasicAuth(Val(guard.request), DOMAIN kv)
  /\ UNCHANGED <<idTables, aggTables, settings, kv, now, task, job, counters,
                 sidSeq, history, respLog, report>>

\* await createSession(env.SESSIONS) returns, and next() is called
CreateSession(token) ==
  /\ guard.stage = "createSession"
  /\ kv' = [k \in DOMAIN kv \cup {AuthKey(token)} |->
              IF k = AuthKey(token)
              THEN [value |-> now, expires |-> now + AUTH_SESSION_TTL]
              ELSE kv[k]]
  /\ guard' = [guard EXCEPT !.stage = "next", !.newSession = Some(token),
                            !.next = TRUE]
  /\ UNCHANGED <<idTables, aggTables, settings, now, task, job, counters,
                 sidSeq, history, respLog, report>>

\* await next() returns: the handler's response goes out with the cookie
NextReturns ==
  /\ guard.stage = "next"
  /\ guard' = Answered(Val(guard.request), guard.store, TRUE, "",
                       guard.newSession)
  /\ UNCHANGED <<idTables, aggTables, settings, kv, now, task, job, counters,
                 sidSeq, history, respLog, report>>

\* SESSION_TTL of the login route (login.ts), 7 days
LOGIN_SESSION_TTL == 7 * 24 * 60 * 60 * Second

\* The password field of the login form: absent, empty, wrong, right
LoginPasswords == {Null, Some(""), Some("wrong"), Some(DASHBOARD_PASSWORD)}

\* A POST /login as the guard record holds it
LoginRequest(password) ==
  [pathname |-> "/login", cookie |-> Null, authorization |-> Null,
   sent |-> [token |-> Null, password |-> password]]

\* The guard has called next() for a GET /logout and the logout handler has
\* not answered yet
LogoutDue ==
  /\ guard.request # Null
  /\ Val(guard.request).pathname = "/logout"
  /\ \/ guard.stage = "next"
     \/ guard.stage = "answered" /\ guard.next /\ guard.answer = ""

\* POST /login: the guard lets the public path through and onRequestPost
\* of the login route answers (login.ts: formData, the password test, the
\* put of auth:<token> and the redirect with the cookie)
LoginPost(password, token) ==
  /\ guard.stage \in {"idle", "answered"}
  /\ ~LogoutDue
  /\ isPublicPath("/login")
  /\ IF password = Null \/ password = Some("")
        \/ password # Some(DASHBOARD_PASSWORD)
     THEN /\ guard' = Answered(LoginRequest(password), {}, TRUE,
                               "302 /login?error=invalid", Null)
          /\ UNCHANGED kv
     ELSE /\ kv' = [k \in DOMAIN kv \cup {AuthKey(token)} |->
                      IF k = AuthKey(token)
                      THEN [value |-> now,
                            expires |-> now + LOGIN_SESSION_TTL]
                      ELSE kv[k]]
          /\ guard' = Answered(LoginRequest(password), {}, TRUE, "302 /",
                               Some(token))
  /\ UNCHANGED <<idTables, aggTables, settings, now, task, job, counters,
                 sidSeq, history, respLog, report>>

\* GET /logout once the guard has called next(): onRequestGet of the
\* logout route deletes auth:<token> of the session cookie, if the request
\* has one, and redirects to /login (logout.ts:11-31); the guard adds the
\* cookie of a session it has just created
LogoutGet ==
  /\ LogoutDue
  /\ kv' = [k \in DOMAIN kv \
              {AuthKey(token) :
                 token \in {x \in parseCookie(Val(guard.request).cookie,
                                              SESSION_COOKIE) : x # ""}} |->
              kv[k]]
  /\ guard' = Answered(Val(guard.request), guard.store, TRUE, "302 /login",
                       guard.newSession)
  /\ UNCHANGED <<idTables, aggTables, settings, now, task, job, counters,
                 sidSeq, history, respLog, report>>

----------------------------------------------------------------------------
(* runDailyCleanup: the retention deletes (worker entry point, 39-73) *)

\* cutoffDate: new Date() less retentionDays days; cutoff its ISO text and
\* cutoffDay the date part of that text.  The job's statements run within
\* one instant, so the clock gives the instant the job began.
cutoffDate == now - settings.data_retention_days * Day
cutoff == toISOString(cutoffDate)
cutoffDay == formatDay(cutoffDate)

\* text comparison a < b of SQLite
TextLt(a, b) == ~TextLe(b, a)

\* DELETE FROM hits WHERE created_at < cutoff
DeleteOldHits ==
  /\ job = "retention"
  /\ hits' = {h \in hits : ~TextLt(toISOString(h.created_at), cutoff)}
  /\ job' = "hit_counts"
  /\ UNCHANGED <<idTables, hit_counts, hit_stats, ref_counts, browser_stats,
                 system_stats, location_stats, size_stats, settings, kv, now,
                 views, task, counters, sidSeq, history>>

\* DELETE FROM hit_counts WHERE hour < cutoff
DeleteOldHitCounts ==
  /\ job = "hit_counts"
  /\ hit_counts' =
       [k \in {x \in DOMAIN hit_counts : ~TextLt(HourText(x[2]), cutoff)} |->
          hit_counts[k]]
  /\ job' = "hit_stats"
  /\ UNCHANGED <<idTables, hits, hit_stats, ref_counts, browser_stats,
                 system_stats, location_stats, size_stats, settings, kv, now,
                 views, task, counters, sidSeq, history>>

\* DELETE FROM hit_stats WHERE day < cutoffDay
DeleteOldHitStats ==
  /\ job = "hit_stats"
  /\ hit_stats' =
       [k \in {x \in DOMAIN hit_stats : ~(x[2] < cutoffDay)} |-> hit_stats[k]]
  /\ job' = "ref_counts"
  /\ UNCHANGED <<idTables, hits, hit_counts, ref_counts, browser_stats,
                 system_stats, location_stats, size_stats, settings, kv, now,
                 views, task, counters, sidSeq, history>>

\* DELETE FROM ref_counts WHERE hour < cutoff
DeleteOldRefCounts ==
  /\ job = "ref_counts"
  /\ ref_counts' =
       [k \in {x \in DOMAIN ref_counts : ~TextLt(HourText(x[3]), cutoff)} |->
          ref_counts[k]]
  /\ job' = "stats"
  /\ UNCHANGED <<idTables, hits, hit_counts, hit_stats, browser_stats,
                 system_stats, location_stats, size_stats, settings, kv, now,
                 views, task, counters, sidSeq, history>>

\* db.batch of DELETE FROM browser_stats / system_stats / location_stats /
\* size_stats WHERE day < cutoffDay
DeleteOldStats ==
  /\ job = "stats"
  /\ browser_stats' =
       [k \in {x \in DOMAIN browser_stats : ~(x[3] < cutoffDay)} |->
          browser_stats[k]]
  /\ system_stats' =
       [k \in {x \in DOMAIN system_stats : ~(x[3] < cutoffDay)} |->
          system_stats[k]]
  /\ location_stats' =
       [k \in {x \in DOMAIN location_stats : ~(x[2] < cutoffDay)} |->
          location_stats[k]]
  /\ size_stats' =
       [k \in {x \in DOMAIN size_stats : ~(x[2] < cutoffDay)} |->
          size_stats[k]]
  /\ job' = "refs"
  /\ UNCHANGED <<idTables, hits, hit_counts, hit_stats, ref_counts, settings,
                 kv, now, views, task, counters, sidSeq, history>>

----------------------------------------------------------------------------
(* Time *)

\* d milliseconds pass; KV drops the keys whose expirationTtl has run out
Advance(d) ==
  /\ ticks' = ticks + 1
  /\ now' = now + d
  /\ kv' = [k \in {x \in DOMAIN kv : kv[x].expires > now + d} |-> kv[k]]
  /\ UNCHANGED <<idTables, aggTables, settings, task, job, started, cleanups,
                 sidSeq, history, views>>

Tick(d) == ticks < MaxTicks /\ Advance(d)

\* The clock steps of SpecRead: first to the last millisecond of the first
\* day, then millisecond by millisecond
ReadTickSteps == {IF ticks = 0 THEN 50 * Minute - 1 ELSE 1}

----------------------------------------------------------------------------
(* Specifications *)

Empty == [k \in {} |-> 0]

\* The state migrations/0001_init.sql leaves, an empty KV namespace, no task
Init ==
  /\ paths = {}
  /\ refs = {[ref_id |-> 1, ref |-> "", ref_scheme |-> "o"]}
  /\ browsers = {[browser_id |-> 1, name |-> "", version |-> ""]}
  /\ systems = {[system_id |-> 1, name |-> "", version |-> ""]}
  /\ sqlite_sequence = [paths |-> 0, refs |-> 1, browsers |-> 1,
                        systems |-> 1, hits |-> 0]
  /\ hits = {}
  /\ hit_counts = Empty /\ hit_stats = Empty /\ ref_counts = Empty
  /\ browser_stats = Empty /\ system_stats = Empty
  /\ location_stats = Empty /\ size_stats = Empty
  /\ settings = [first_hit_at |-> Null, data_retention_days |-> 0]
  /\ kv = Empty
  /\ now = StartTime
  /\ task = [t \in Tasks |-> IdleTask]
  /\ job = "idle"
  /\ started = 0 /\ ticks = 0 /\ cleanups = 0 /\ sidSeq = 0
  /\ sessLog = <<>> /\ resLog = {} /\ errLog = {}
  /\ assigned = {<<"refs", 1, <<"", "o">> >>, <<"browsers", 1, <<"", "">> >>,
                 <<"systems", 1, <<"", "">> >>}
  /\ nRecorded = Empty /\ nFirstBrowser = Empty
  /\ respLog = <<>> /\ report = Null
  /\ guard = IdleGuard

\* waitUntil(processHit(...)) takes the first free slot
FreeSlot(t) ==
  /\ task[t].main = "idle"
  /\ \A u \in Tasks : u < t => task[u].main # "idle"

\* One step of a running task
TaskStep(t) ==
  \/ SelectPath(t) \/ UpdatePath(t) \/ InsertPath(t)
  \/ SelectRef(t) \/ InsertRef(t)
  \/ SelectBrowser(t) \/ InsertBrowser(t)
  \/ SelectSystem(t) \/ InsertSystem(t)
  \/ SessionGet(t) \/ SessionPut(t)
  \/ UpdateStats(t) \/ UpdateFirstHit(t)

\* Requests arrive at any time and their tasks interleave; the cleanup job
\* runs beside them; a batch may fail
Next ==
  \/ \E t \in Tasks, q \in Requests :
       started < MaxHits /\ FreeSlot(t) /\ ProcessHit(t, q)
       /\ UNCHANGED respLog
  \/ \E t \in Tasks : TaskStep(t)
  \/ \E t \in Tasks : UpdateStatsFails(t)
  \/ CleanupStart \/ VacuumRefs \/ VacuumBrowsers \/ VacuumSystems
  \/ \E d \in TickSteps : Tick(d)

Spec == Init /\ [][Next]_vars

NoTaskRuns == \A t \in Tasks : task[t].main = "idle"

\* Requests arrive one after another: each task ends before the next
\* request is accepted; no storage failure, no cleanup
SeqNext ==
  \/ \E q \in SeqRequests :
       started < SeqMaxHits /\ NoTaskRuns /\ ProcessHit(1, q)
       /\ UNCHANGED respLog
  \/ \E t \in Tasks : TaskStep(t)
  \/ \E d \in TickSteps : Tick(d)

SpecSeq == Init /\ [][SeqNext]_vars

\* Requests arrive one after another and a batch may fail
FailNext ==
  \/ \E q \in Requests :
       started < FailMaxHits /\ NoTaskRuns /\ ProcessHit(1, q)
       /\ UNCHANGED respLog
  \/ \E t \in Tasks : TaskStep(t)
  \/ \E t \in Tasks : UpdateStatsFails(t)
  \/ \E d \in TickSteps : Tick(d)

SpecFail == Init /\ [][FailNext]_vars

\* Requests arrive one after another while the cleanup job runs beside the
\* task, within one instant; a batch may fail
CleanupNext ==
  \/ \E q \in Requests :
       started < CleanupMaxHits /\ NoTaskRuns /\ ProcessHit(1, q)
       /\ UNCHANGED respLog
  \/ \E t \in Tasks : TaskStep(t)
  \/ \E t \in Tasks : UpdateStatsFails(t)
  \/ CleanupStart \/ VacuumRefs \/ VacuumBrowsers \/ VacuumSystems

SpecCleanup == Init /\ [][CleanupNext]_vars

\* Requests to /api/count of every kind; a rejected request may arrive at
\* any time, an accepted one arrives when the task of the one before has
\* ended; a batch may fail
HttpNext ==
  \/ \E h \in HttpRequests :
       /\ Len(respLog) < HttpMaxRequests
       /\ Handled[h].waitUntil => NoTaskRuns
       /\ HandleCount(1, h)
  \/ \E t \in Tasks : TaskStep(t)
  \/ \E t \in Tasks : UpdateStatsFails(t)
  \/ \E d \in TickSteps : Tick(d)

SpecHttp == Init /\ [][HttpNext]_vars

\* The change of one pair of totals up to MaxTotal, once in a behaviour
ChangeNext ==
  \E current \in 0..MaxTotal, prevTotal \in 0..MaxTotal :
    report = Null /\ Compare(current, prevTotal)

SpecChange == Init /\ [][ChangeNext]_vars

\* The dates the dashboard is asked for
ReadDays == {0, 1}

\* The limits top pages are asked with; the dashboard asks with 10
ReadLimits == {1, 2, 10}

\* Requests arrive one after another around midnight; the dashboard is
\* loaded between two of them, and the behaviour is followed up to there
ReadNext ==
  \/ \E q \in ReadRequests :
       /\ started < ReadMaxHits /\ NoTaskRuns /\ report = Null
       /\ ProcessHit(1, q)
       /\ UNCHANGED respLog
  \/ \E t \in Tasks : TaskStep(t)
  \/ \E d \in ReadTickSteps :
       ticks < ReadMaxTicks /\ report = Null /\ Advance(d)
  \/ \E customStart \in ReadDays, customEnd \in ReadDays :
       /\ customStart <= customEnd /\ NoTaskRuns /\ report = Null
       /\ LoadTotals(customStart, customEnd)
  \/ \E customStart \in ReadDays, customEnd \in ReadDays, limit \in ReadLimits :
       /\ customStart <= customEnd /\ NoTaskRuns /\ report = Null
       /\ LoadTopPages(customStart, customEnd, limit)

SpecRead == Init /\ [][ReadNext]_vars

\* The period names, hl values and dates a dashboard request carries
PeriodNames ==
  {Null, Some("day"), Some("week"), Some("month"), Some("quarter"),
   Some("half-year"), Some("year"), Some("decade"), Some("")}
HlValues == {Null, Some("hour"), Some("day"), Some("")}
PeriodDates == {Null} \cup {Some(d) : d \in 0..MaxPeriodDay}

\* The dashboard is asked for one period, once in a behaviour, at some
\* instant
PeriodNext ==
  \/ \E period \in PeriodNames, hl \in HlValues,
        customStart \in PeriodDates, customEnd \in PeriodDates :
       /\ report = Null
       /\ ParsePeriod(SearchParams(period, hl, customStart, customEnd))
  \/ \E d \in TickSteps : report = Null /\ Tick(d)

SpecPeriod == Init /\ [][PeriodNext]_vars

\* One referrer is parsed, once in a behaviour
RefNext == \E ref \in Referrers : report = Null /\ ParseRef(ref)

SpecRef == Init /\ [][RefNext]_vars

\* Unparsed requests arrive one after another
RawNext ==
  \/ \E h \in RawHits :
       started < RawMaxHits /\ NoTaskRuns /\ ReceiveHit(1, h)
  \/ \E t \in Tasks : TaskStep(t)

SpecRaw == Init /\ [][RawNext]_vars

\* One User-Agent header is parsed
UaNext == \E ua \in UserAgents : report = Null /\ ParseUA(ua)

SpecUA == Init /\ [][UaNext]_vars

\* The requests of SpecFirst: two clients on one path, without referrer and
\* with an empty User-Agent header, so that only the path is resolved in
\* the store
FirstRequests ==
  { Request("/a", "Home", FALSE, REF_NONE, UA_EMPTY, "10.0.0.1", Null, ""),
    Request("/a", "Blog", FALSE, REF_NONE, UA_EMPTY, "10.0.0.2", Null, "") }

\* Requests arrive at any time and their tasks interleave while the clock
\* advances
FirstNext ==
  \/ \E t \in Tasks, q \in FirstRequests :
       started < FirstMaxHits /\ FreeSlot(t) /\ ProcessHit(t, q)
       /\ UNCHANGED respLog
  \/ \E t \in Tasks :
       \/ SelectPath(t) \/ UpdatePath(t) \/ InsertPath(t)
       \/ SessionGet(t) \/ SessionPut(t)
       \/ UpdateStats(t) \/ UpdateFirstHit(t)
  \/ \E d \in TickSteps : Tick(d)

SpecFirst == Init /\ [][FirstNext]_vars

\* The requests of SpecSame: one client on two paths, without referrer and
\* with an empty User-Agent header
SameRequests ==
  { Request("/a", "", FALSE, REF_NONE, UA_EMPTY, "10.0.0.1", Null, ""),
    Request("/b", "Blog", FALSE, REF_NONE, UA_EMPTY, "10.0.0.1", Null, "") }

\* The client's requests arrive at any time and their tasks interleave
\* while the clock advances
SameNext ==
  \/ \E t \in Tasks, q \in SameRequests :
       started < SameMaxHits /\ FreeSlot(t) /\ ProcessHit(t, q)
       /\ UNCHANGED respLog
  \/ \E t \in Tasks :
       \/ SelectPath(t) \/ UpdatePath(t) \/ InsertPath(t)
       \/ SessionGet(t) \/ SessionPut(t)
       \/ UpdateStats(t) \/ UpdateFirstHit(t)
  \/ \E d \in TickSteps : Tick(d)

SpecSame == Init /\ [][SameNext]_vars

\* Requests arrive one after another and any storage call of the
\* background path may fail
DropNext ==
  \/ \E q \in Requests :
       started < DropMaxHits /\ NoTaskRuns /\ ProcessHit(1, q)
       /\ UNCHANGED respLog
  \/ \E t \in Tasks : TaskStep(t)
  \/ \E t \in Tasks, d \in Dims : DimensionFails(t, d)
  \/ \E t \in Tasks : SessionFails(t)
  \/ \E t \in Tasks : UpdateStatsFails(t)

SpecDrop == Init /\ [][DropNext]_vars

\* The clock steps of SpecVacuum: a day, after which the hour of the first
\* hit lies before a cutoff of one day and the hit itself does not, and two
\* days, after which all of the first day does
VacuumTickSteps == {Day, 2 * Day}

\* The retentions the operator may store
RetentionDays == {0, 1}

\* Requests arrive one after another while the cleanup job runs beside the
\* task; a batch may fail, days pass between two runs of the job, and the
\* operator may change the retention while the job is idle
VacuumNext ==
  \/ \E q \in Requests :
       started < VacuumMaxHits /\ NoTaskRuns /\ ProcessHit(1, q)
       /\ UNCHANGED respLog
  \/ \E t \in Tasks : TaskStep(t)
  \/ \E t \in Tasks : UpdateStatsFails(t)
  \/ \E days \in RetentionDays : SetRetention(days)
  \/ CleanupStart
  \/ DeleteOldHits \/ DeleteOldHitCounts \/ DeleteOldHitStats
  \/ DeleteOldRefCounts \/ DeleteOldStats
  \/ VacuumRefs \/ VacuumBrowsers \/ VacuumSystems
  \/ \E d \in VacuumTickSteps : job = "idle" /\ Tick(d)

SpecVacuum == Init /\ [][VacuumNext]_vars

\* The clock steps of SpecAuth: an hour, and the life of a session
AuthTickSteps == {Hour, AUTH_SESSION_TTL}

\* Requests reach the guard one after another; sessions expire as time
\* passes
AuthNext ==
  \/ \E request \in GuardRequests : OnRequest(request)
  \/ ValidateSession
  \/ \E token \in Tokens : CreateSession(token)
  \/ NextReturns
  \/ \E d \in AuthTickSteps : Tick(d)

SpecAuth == Init /\ [][AuthNext]_vars

\* The requests of SpecToken: three protected routes, one of them /logout
TokenRequests ==
  {request \in GuardRequests :
     request.pathname \in {"/", "/api/stats", "/logout"}}

\* Logins, logouts and requests to protected routes reach the worker one
\* after another; sessions expire as time passes
TokenNext ==
  \/ \E request \in TokenRequests : ~LogoutDue /\ OnRequest(request)
  \/ ValidateSession
  \/ \E token \in Tokens : CreateSession(token)
  \/ ~LogoutDue /\ NextReturns
  \/ LogoutGet
  \/ \E password \in LoginPasswords, token \in Tokens :
       LoginPost(password, token)
  \/ \E d \in AuthTickSteps : Tick(d)

SpecToken == Init /\ [][TokenNext]_vars

\* Requests arrive at any time and their tasks run side by side, so that
\* their batches are submitted in any order; no storage failure
BatchNext ==
  \/ \E t \in Tasks, q \in Requests :
       started < BatchMaxHits /\ FreeSlot(t) /\ ProcessHit(t, q)
       /\ UNCHANGED respLog
  \/ \E t \in Tasks : TaskStep(t)

SpecBatch == Init /\ [][BatchNext]_vars

\* Requests arrive one after another, eight hours or half an hour apart,
\* so that the hits of a day fall into different hours
SlotNext ==
  \/ \E q \in Requests :
       started < SlotMaxHits /\ NoTaskRuns /\ ProcessHit(1, q)
       /\ UNCHANGED respLog
  \/ \E t \in Tasks : TaskStep(t)
  \/ \E d \in TickSteps : ticks < SlotMaxTicks /\ NoTaskRuns /\ Advance(d)

SpecSlot == Init /\ [][SlotNext]_vars

----------------------------------------------------------------------------
(* Session tracker: first-visit semantics *)

SameVisit(a, b) == a.sessionHash = b.sessionHash /\ a.pathId = b.pathId

\* The first call logged for the session hash of call i
FirstCall(i) ==
  CHOOSE j \in 1..i :
    /\ sessLog[j].sessionHash = sessLog[i].sessionHash
    /\ \A k \in 1..(j - 1) : sessLog[k].sessionHash # sessLog[i].sessionHash

\* C1: with hits processed one after another, starting from no stored
\* session, every call of getOrCreateSession that returns within the 8-hour
\* TTL of the session's creation returns firstVisit = true exactly when no
\* earlier call of that session carried the same pathId.
C1_FirstVisitIffUnseen ==
  \A i \in DOMAIN sessLog :
    sessLog[i].at < sessLog[FirstCall(i)].at + SESSION_TTL =>
      (sessLog[i].firstVisit <=>
         ~\E j \in 1..(i - 1) : SameVisit(sessLog[j], sessLog[i]))

\* The path sequence [A, A, B, A] of one visitor within the TTL gave
\* [true, false, true, false]
C1_Witness_AABA ==
  /\ Len(sessLog) >= 4
  /\ \A i \in 1..4 : /\ sessLog[i].sessionHash = sessLog[1].sessionHash
                     /\ sessLog[i].at < sessLog[1].at + SESSION_TTL
  /\ sessLog[2].pathId = sessLog[1].pathId
  /\ sessLog[3].pathId # sessLog[1].pathId
  /\ sessLog[4].pathId = sessLog[1].pathId
  /\ <<sessLog[1].firstVisit, sessLog[2].firstVisit,
       sessLog[3].firstVisit, sessLog[4].firstVisit>>
       = <<TRUE, FALSE, TRUE, FALSE>>

\* C2: among the calls of getOrCreateSession with the same (ip, userAgent)
\* and the same pathId that return within one TTL window, at most one
\* returns firstVisit = true.
C2_AtMostOneFirstVisit ==
  \A i, j \in DOMAIN sessLog :
    (/\ i < j
     /\ SameVisit(sessLog[i], sessLog[j])
     /\ sessLog[i].firstVisit
     /\ sessLog[j].firstVisit)
    => sessLog[j].at - sessLog[i].at >= SESSION_TTL

----------------------------------------------------------------------------
(* Hit aggregator *)

\* C3: after N calls of updateStats for one (path, hour) have returned,
\* hit_counts.total of that (path, hour) is N; after M of them that were
\* first visits with one known browser (id > 1) on one day,
\* browser_stats.count of that (path, browser, day) is M.
C3_AggregateExact ==
  /\ \A k \in DOMAIN nRecorded :
       k \in DOMAIN hit_counts /\ hit_counts[k] = nRecorded[k]
  /\ \A k \in DOMAIN nFirstBrowser :
       k[2] > 1 => k \in DOMAIN browser_stats
                   /\ browser_stats[k] = nFirstBrowser[k]

\* N = 3 hits to one path in one hour, M = 2 of them first visits with the
\* same known browser
C3_Witness_ThreeHitsTwoFirst ==
  \E k \in DOMAIN nRecorded, b \in DOMAIN nFirstBrowser :
    /\ nRecorded[k] = 3
    /\ b[1] = k[1] /\ b[2] > 1 /\ b[3] = formatDay(k[2])
    /\ nFirstBrowser[b] = 2

\* The rows of the raw log that count for a key
HitsOf(Counts(_)) == Cardinality({h \in hits : Counts(h)})

FirstVisitsOf(Counts(_)) ==
  Cardinality({h \in hits : h.first_visit = 1 /\ Counts(h)})

\* C4: updateStats applies the raw insert and the rollup upserts of a hit
\* all or not at all: in every reachable state, whether batches failed or
\* not, each hit_counts total, each hit_stats slot and each breakdown count
\* is the number of raw hit rows that contribute to it, and every raw hit
\* row has its hit_counts and hit_stats rows.
C4_AllOrNothing ==
  /\ \A h \in hits :
       /\ <<h.path_id, formatHour(h.created_at)>> \in DOMAIN hit_counts
       /\ <<h.path_id, formatDay(h.created_at)>> \in DOMAIN hit_stats
  /\ \A k \in DOMAIN hit_counts :
       LET Counts(h) == h.path_id = k[1] /\ formatHour(h.created_at) = k[2]
       IN hit_counts[k] = HitsOf(Counts)
  /\ \A k \in DOMAIN hit_stats : \A i \in 0..23 :
       LET Counts(h) == /\ h.path_id = k[1]
                        /\ formatDay(h.created_at) = k[2]
                        /\ getUTCHours(h.created_at) = i
       IN hit_stats[k][i] = HitsOf(Counts)
  /\ \A k \in DOMAIN ref_counts :
       LET Counts(h) == /\ h.path_id = k[1] /\ h.ref_id = k[2]
                        /\ formatHour(h.created_at) = k[3]
       IN ref_counts[k] = FirstVisitsOf(Counts)
  /\ \A k \in DOMAIN browser_stats :
       LET Counts(h) == /\ h.path_id = k[1] /\ h.browser_id = k[2]
                        /\ formatDay(h.created_at) = k[3]
       IN browser_stats[k] = FirstVisitsOf(Counts)
  /\ \A k \in DOMAIN system_stats :
       LET Counts(h) == /\ h.path_id = k[1] /\ h.system_id = k[2]
                        /\ formatDay(h.created_at) = k[3]
       IN system_stats[k] = FirstVisitsOf(Counts)
  /\ \A k \in DOMAIN location_stats :
       LET Counts(h) == /\ h.path_id = k[1] /\ h.location = k[3]
                        /\ formatDay(h.created_at) = k[2]
       IN location_stats[k] = FirstVisitsOf(Counts)
  /\ \A k \in DOMAIN size_stats :
       LET Counts(h) == /\ h.path_id = k[1] /\ h.width = Some(k[3])
                        /\ formatDay(h.created_at) = k[2]
       IN size_stats[k] = FirstVisitsOf(Counts)

\* A batch failed after another had been applied
C4_Witness_FailedBatch ==
  /\ \E e \in errLog : e.op = "updateStats"
  /\ hits # {}
  /\ ref_counts # Empty

\* The sum of the counts of a table
Total(table) == Sum(table, DOMAIN table)

\* The sum of all hourly slots of hit_stats
SlotTotal(table) ==
  Sum([k \in DOMAIN table |-> Sum(table[k], 0..23)], DOMAIN table)

\* C5: every step that adds a raw hit row adds exactly one, and adds 1 to
\* hit_counts and 1 to hit_stats; if the row has first_visit = 0 the five
\* breakdown tables are unchanged; if it has first_visit = 1 each of the
\* five grows by 0 or by 1 in total.
C5_FrameOfHit ==
  [][hits' \ hits # {} =>
       LET new == CHOOSE h \in hits' \ hits : TRUE
           Grows(before, after) == Total(after) - Total(before) \in {0, 1}
       IN /\ hits' = hits \cup {new}
          /\ Total(hit_counts') = Total(hit_counts) + 1
          /\ SlotTotal(hit_stats') = SlotTotal(hit_stats) + 1
          /\ new.first_visit = 0 =>
               UNCHANGED <<ref_counts, browser_stats, system_stats,
                           location_stats, size_stats>>
          /\ new.first_visit = 1 =>
               /\ Grows(ref_counts, ref_counts')
               /\ Grows(browser_stats, browser_stats')
               /\ Grows(system_stats, system_stats')
               /\ Grows(location_stats, location_stats')
               /\ Grows(size_stats, size_stats')]_vars

\* A repeat visit and a first visit with a known referrer were both recorded
C5_Witness_BothKinds ==
  /\ \E h \in hits : h.first_visit = 0 /\ h.ref_id > 1 /\ h.location # ""
  /\ \E h \in hits : h.first_visit = 1 /\ h.ref_id > 1
  /\ ref_counts # Empty

\* C6: no breakdown row is keyed by an unknown value: none of ref_counts by
\* ref_id 1, of browser_stats by browser_id 1, of system_stats by
\* system_id 1, of location_stats by the empty location, of size_stats by
\* a width <= 0.
C6_NoUnknownKeys ==
  /\ \A k \in DOMAIN ref_counts : k[2] # 1
  /\ \A k \in DOMAIN browser_stats : k[2] # 1
  /\ \A k \in DOMAIN system_stats : k[2] # 1
  /\ \A k \in DOMAIN location_stats : k[3] # ""
  /\ \A k \in DOMAIN size_stats : k[3] > 0

\* First visits with each kind of unknown value were recorded: no referrer,
\* unknown browser, unknown system, no location, a width that rounds to 0
\* and no width
C6_Witness_UnknownsRecorded ==
  /\ \E h \in hits : h.first_visit = 1 /\ h.ref_id = 1
  /\ \E h \in hits : h.first_visit = 1 /\ h.browser_id = 1
  /\ \E h \in hits : h.first_visit = 1 /\ h.system_id = 1
  /\ \E h \in hits : h.first_visit = 1 /\ h.location = ""
  /\ \E h \in hits : h.first_visit = 1 /\ h.width = Some(0)
  /\ \E h \in hits : h.first_visit = 1 /\ h.width = Null

----------------------------------------------------------------------------
(* Dimension resolver *)

GetOrCreateOps ==
  {"getOrCreatePath", "getOrCreateRef", "getOrCreateBrowser",
   "getOrCreateSystem"}

\* The keys of the rows an identity table holds, with their ids
Held(d) ==
  CASE d = "path" -> {<<r.path_id, <<r.path>> >> : r \in paths}
    [] d = "ref" -> {<<r.ref_id, <<r.ref, r.ref_scheme>> >> : r \in refs}
    [] d = "browser" ->
         {<<r.browser_id, <<r.name, r.version>> >> : r \in browsers}
    [] d = "system" ->
         {<<r.system_id, <<r.name, r.version>> >> : r \in systems}

\* C7: with the calls made one after another, every call of a get-or-create
\* function returns, the calls with one identifying key all return the same
\* id, and the table holds exactly one row for the key, with that id.
C7_ResolveIdempotent ==
  /\ \A e \in errLog : e.op \notin GetOrCreateOps
  /\ \A a, b \in resLog : a.dim = b.dim /\ a.key = b.key => a.id = b.id
  /\ \A a \in resLog : {x \in Held(a.dim) : x[2] = a.key} = {<<a.id, a.key>>}

\* Each of the four functions was called twice with one key: the first call
\* inserted (SELECT, INSERT), the second found the row (SELECT)
C7_Witness_CalledTwice ==
  \A d \in Dims : \E a, b \in resLog :
    /\ a.dim = d /\ b.dim = d /\ a.key = b.key /\ a.id = b.id
    /\ a.stmts = 2 /\ b.stmts = 1

\* C8: when processHit tasks resolve the same unseen key concurrently, no
\* call of a get-or-create function raises an error (which would end the
\* task's processHit and drop its hit).
C8_NoResolveError == \A e \in errLog : e.op \notin GetOrCreateOps

\* C9: getOrCreateRef with an empty ref and getOrCreateBrowser /
\* getOrCreateSystem with an empty name return 1 without executing a
\* statement, and no table holds a row with an empty ref or name other than
\* the row of id 1.
C9_SentinelWithoutStorage ==
  /\ \A a \in resLog :
       a.dim \in {"ref", "browser", "system"} /\ a.key[1] = ""
         => a.id = 1 /\ a.stmts = 0
  /\ \A d \in {"ref", "browser", "system"} : \A x \in Held(d) :
       x[2][1] = "" => x[1] = 1

\* Each of the three functions was called with an empty value
C9_Witness_EmptyResolved ==
  \A d \in {"ref", "browser", "system"} :
    \E a \in resLog : a.dim = d /\ a.key[1] = ""

\* C10: the rows of id 1 of refs, browsers and systems are there with their
\* seeded values; over the whole behaviour no id of an identity table has
\* been given to two different values; every row held has the value its id
\* was given with, and no two rows share an id.
C10_IdentityStable ==
  /\ [ref_id |-> 1, ref |-> "", ref_scheme |-> "o"] \in refs
  /\ [browser_id |-> 1, name |-> "", version |-> ""] \in browsers
  /\ [system_id |-> 1, name |-> "", version |-> ""] \in systems
  /\ \A a, b \in assigned : a[1] = b[1] /\ a[2] = b[2] => a[3] = b[3]
  /\ \A x \in Held("path") : <<"paths", x[1], x[2]>> \in assigned
  /\ \A x \in Held("ref") : <<"refs", x[1], x[2]>> \in assigned
  /\ \A x \in Held("browser") : <<"browsers", x[1], x[2]>> \in assigned
  /\ \A x \in Held("system") : <<"systems", x[1], x[2]>> \in assigned

\* The vacuum deleted a referrer row and a later call created a row for
\* another referrer
C10_Witness_VacuumedThenCreated ==
  \E a \in assigned :
    /\ a[1] = "refs" /\ a[2] > 1
    /\ \A x \in Held("ref") : x[1] # a[2]
    /\ \E x \in Held("ref") : x[1] > a[2] /\ x[2] # a[3]

----------------------------------------------------------------------------
(* Ingestion endpoint: the response *)

\* C11: every GET or POST to the count endpoint is answered with the same
\* response -- status 200, the 43-byte GIF, the same headers -- whatever its
\* parameters, headers and bot markers, whether processHit was started for
\* it or not, and whether the storage operations of its task succeed or
\* fail.
C11_SameResponse ==
  \A i \in DOMAIN respLog :
    /\ respLog[i].response.status = 200
    /\ respLog[i].response.body = GIF /\ Len(respLog[i].response.body) = 43
    /\ <<"Content-Type", "image/gif">> \in respLog[i].response.headers
    /\ \A j \in DOMAIN respLog : respLog[i].response = respLog[j].response

\* An accepted POST whose batch failed in storage, then a GET dropped for
\* its missing path
C11_Witness_FailedAndDropped ==
  /\ Len(respLog) = 2
  /\ respLog[1].request.method # respLog[2].request.method
  /\ respLog[1].waitUntil
  /\ respLog[2].request.p = ""
  /\ \E e \in errLog : e.op = "updateStats"

\* C12: the response does not wait on persistence.  The step in which
\* handleCount answers reads and writes no store -- identity tables, raw
\* hits, rollups, settings and sessions are as before, and the answer to a
\* request is the one given to the same request in any earlier state of the
\* store -- and a response once given is never changed by what the task
\* does or fails to do later.
C12_ResponseBeforePersistence ==
  [][ /\ SubSeq(respLog', 1, Len(respLog)) = respLog
      /\ Len(respLog') > Len(respLog) =>
            /\ Len(respLog') = Len(respLog) + 1
            /\ <<idTables, aggTables, settings, kv>>' =
                 <<idTables, aggTables, settings, kv>>
            /\ \A i \in DOMAIN respLog :
                 respLog[i].request = respLog'[Len(respLog')].request =>
                   /\ respLog[i].response = respLog'[Len(respLog')].response
                   /\ respLog[i].waitUntil = respLog'[Len(respLog')].waitUntil
    ]_vars

\* The response to an accepted hit is out while its task has not yet touched
\* the store: no path row, no session, no raw hit
C12_Witness_AnsweredBeforeAnyWrite ==
  /\ Len(respLog) = 1 /\ respLog[1].waitUntil
  /\ task[1].main = "resolve" /\ task[1].dpc["path"] = "select"
  /\ paths = {} /\ hits = {} /\ DOMAIN kv = {} /\ DOMAIN hit_counts = {}

----------------------------------------------------------------------------
(* Ingestion endpoint: dropped requests *)

\* C13: a request whose p is missing or empty, or longer than 2048
\* characters, is dropped silently.  processHit is not started for it (no
\* task slot changes), no identity row, session record, raw hit or rollup
\* row is created or changed, and its response is the payload a recorded
\* hit gets.
C13_InvalidPathDropped ==
  [][ Len(respLog') > Len(respLog) =>
        LET e == respLog'[Len(respLog')]
        IN (e.request.p = "" \/ Len(e.request.p) > 2048) =>
             /\ ~e.waitUntil
             /\ task' = task /\ started' = started
             /\ <<idTables, aggTables, settings, kv>>' =
                  <<idTables, aggTables, settings, kv>>
             /\ <<sessLog, resLog, errLog, assigned>>' =
                  <<sessLog, resLog, errLog, assigned>>
             /\ e.response = gifResponse
             /\ \A i \in DOMAIN respLog :
                  respLog[i].waitUntil => respLog[i].response = e.response
    ]_vars

\* A request without path and one with a path of 2049 characters were both
\* answered, and the store is as migration 0001 left it
C13_Witness_BothDropped ==
  /\ \E i \in DOMAIN respLog : respLog[i].request.p = ""
  /\ \E i \in DOMAIN respLog : Len(respLog[i].request.p) = 2049
  /\ paths = {} /\ hits = {} /\ DOMAIN kv = {} /\ started = 0

----------------------------------------------------------------------------
(* Ingestion endpoint: bot suppression *)

\* The three markers of the claim, for each request of the model
ClientMarker ==
  [h \in HttpRequests |-> parseInt(h.b) # NaN /\ Val(parseInt(h.b)) > 0]
ServerMarker == [h \in HttpRequests |-> detectBot(h.userAgent.raw) > 100]
EdgeMarker == [h \in HttpRequests |-> h.score # Null /\ Val(h.score) < 30]

\* C14: a request with a valid path is handed to processHit if and only if
\* none of three markers holds: b parses to an integer above 0, detectBot
\* of the User-Agent is above 100, the edge score is present and below 30.
\* A server score of exactly 100 (empty or very short User-Agent) and an
\* edge score of exactly 30 do not suppress, and a suppressed request
\* writes nothing to the store.
C14_SuppressedIffMarked ==
  [][ Len(respLog') > Len(respLog) =>
        LET e == respLog'[Len(respLog')]
            h == e.request
        IN (h.p # "" /\ Len(h.p) <= 2048) =>
             /\ e.waitUntil <=>
                  ~(ClientMarker[h] \/ ServerMarker[h] \/ EdgeMarker[h])
             /\ ( /\ h.userAgent.raw = "" \/ h.userAgent = UA_SHORT
                  /\ h.b \in {"", "0"}
                  /\ h.score \in {Null, Some(30)} ) => e.waitUntil
             /\ e.waitUntil => task'[1].req = Some(Classified[h])
             /\ ~e.waitUntil =>
                  /\ task' = task
                  /\ <<idTables, aggTables, settings, kv>>' =
                       <<idTables, aggTables, settings, kv>>
    ]_vars

\* A request with a User-Agent scored exactly 100 and an edge score of
\* exactly 30 was recorded, and one with an edge score of 29 was answered
\* without a trace
C14_Witness_BoundaryRecorded ==
  /\ Len(respLog) = 2
  /\ detectBot(respLog[1].request.userAgent.raw) = 100
  /\ respLog[1].request.score = Some(30)
  /\ respLog[1].waitUntil
  /\ respLog[2].request.score = Some(29) /\ ~respLog[2].waitUntil
  /\ Cardinality(hits) = 1 /\ NoTaskRuns

----------------------------------------------------------------------------
(* Ingestion endpoint: end to end *)

ServerScore == [h \in HttpRequests |-> detectBot(h.userAgent.raw)]

\* The raw hit rows of a path, and the hourly total of a path and an hour,
\* in given tables
RawHitsFor(path, pathRows, hitRows) ==
  Cardinality({r \in hitRows :
                 \E p \in pathRows : p.path = path /\ p.path_id = r.path_id})

HourlyTotalFor(path, hour, pathRows, counts) ==
  Sum([p \in pathRows |->
         IF p.path = path /\ <<p.path_id, hour>> \in DOMAIN counts
         THEN counts[<<p.path_id, hour>>] ELSE 0],
      pathRows)

\* C15: a request with p=/blog, a browser User-Agent and no bot marker is
\* answered with the fixed payload and handed to processHit; once its task
\* has ended with its batch committed, there is exactly one more raw hit
\* row for /blog than when the request arrived, and the hourly total of
\* /blog for the hour in which the task stamped it is exactly one higher.
C15_EndToEnd ==
  \A i \in DOMAIN respLog :
    LET e == respLog[i]
        h == e.request
        new == hits \ e.before.hits
    IN (h.p = "/blog" /\ ServerScore[h] = 0 /\ h.b = "" /\ h.score = Null) =>
         /\ e.response = gifResponse /\ e.waitUntil
         /\ (i = Len(respLog) /\ NoTaskRuns
             /\ nRecorded # e.before.nRecorded) =>
               /\ RawHitsFor("/blog", paths, hits) =
                    RawHitsFor("/blog", e.before.paths, e.before.hits) + 1
               /\ Cardinality(new) = 1
               /\ \A r \in new :
                    LET hour == (r.created_at \div Hour) * Hour
                    IN /\ hour <= r.created_at /\ r.created_at <= now
                       /\ HourlyTotalFor("/blog", hour, paths, hit_counts) =
                            HourlyTotalFor("/blog", hour, e.before.paths,
                                           e.before.hit_counts) + 1

\* /blog was requested twice by a browser and recorded twice, in the same
\* hour: two raw rows and an hourly total of 2
C15_Witness_TwoBlogHits ==
  /\ Len(respLog) = 2 /\ NoTaskRuns
  /\ \A i \in DOMAIN respLog :
       respLog[i].request.p = "/blog" /\ respLog[i].request.userAgent = UA_FIREFOX
  /\ RawHitsFor("/blog", respLog[2].before.paths, respLog[2].before.hits) = 1
  /\ RawHitsFor("/blog", paths, hits) = 2
  /\ \E k \in DOMAIN hit_counts : hit_counts[k] = 2

----------------------------------------------------------------------------
(* Session tracker: lifetime *)

\* The calls of getOrCreateSession for a session hash that wrote the record
\* (creation or a newly seen path), by position in the log
WritesOf(log, hash) ==
  {i \in DOMAIN log : log[i].sessionHash = hash /\ log[i].firstVisit}

LastWrite(log, hash) ==
  CHOOSE i \in WritesOf(log, hash) : \A j \in WritesOf(log, hash) : j <= i

\* C16: every persist of a session record, creation or appended path,
\* stores it with the full 8-hour TTL counted from that write, so the
\* record is there exactly until 8 hours after its most recent write; a
\* hit to a path already seen writes nothing and extends nothing; and a
\* hit that finds the record expired creates a new session, with a new id
\* and only its own path, and reports firstVisit = true.
C16_TtlFromLastWrite ==
  [][ /\ \A e \in {sessLog'[i] : i \in DOMAIN sessLog'} :
           LET key == <<"session:", e.sessionHash>>
               last == sessLog'[LastWrite(sessLog', e.sessionHash)]
           IN /\ WritesOf(sessLog', e.sessionHash) # {}
              /\ key \in DOMAIN kv' <=> now' < last.at + 8 * Hour
              /\ key \in DOMAIN kv' =>
                   kv'[key].expires = last.at + 8 * Hour
      /\ Len(sessLog') > Len(sessLog) =>
           LET e == sessLog'[Len(sessLog')]
               key == <<"session:", e.sessionHash>>
           IN IF e.firstVisit
              THEN /\ key \in DOMAIN kv'
                   /\ kv'[key].expires = now' + 8 * Hour
                   /\ Includes(kv'[key].value.pathsSeen, e.pathId)
              ELSE /\ kv' = kv
                   /\ key \in DOMAIN kv /\ kv[key].value.id = e.sessionId
      /\ \A t \in Tasks :
           ( /\ task[t].main = "resolve" /\ task'[t].main \in {"kvput", "batch"}
             /\ SessionKey(Val(task[t].req)) \notin DOMAIN kv ) =>
               /\ task'[t].firstVisit /\ task'[t].main = "kvput"
               /\ \A i \in DOMAIN sessLog :
                    sessLog[i].sessionId # task'[t].sessionId
               /\ Val(task'[t].put).id = task'[t].sessionId
               /\ Val(task'[t].put).pathsSeen = <<task[t].ids["path"]>>
    ]_vars

\* A session was created, hit again on the same path without a write, had
\* expired 8 hours after its creation, and the next hit on that path made
\* a new session with firstVisit = true
C16_Witness_ExpiredAndRecreated ==
  /\ Len(sessLog) >= 3
  /\ \A i \in 1..3 : /\ sessLog[i].sessionHash = sessLog[1].sessionHash
                      /\ sessLog[i].pathId = sessLog[1].pathId
  /\ sessLog[1].firstVisit /\ ~sessLog[2].firstVisit /\ sessLog[3].firstVisit
  /\ sessLog[2].sessionId = sessLog[1].sessionId
  /\ sessLog[3].sessionId # sessLog[1].sessionId
  /\ sessLog[3].at = sessLog[1].at + 8 * Hour
  /\ kv[<<"session:", sessLog[1].sessionHash>>].expires = now + 8 * Hour

----------------------------------------------------------------------------
(* Dashboard: period-over-period change *)

\* C17: the change of a current total C against a previous total P is
\* round((C - P) / P * 100) when P > 0 -- an integer at most one half away
\* from the exact percentage -- and null when P = 0, never 0 and never an
\* error; P = 50, C = 75 gives 50 and P = 100, C = 80 gives -20.
C17_ChangeRounded ==
  \A r \in report :
    /\ r.prevTotal = 0 => r.change = Null
    /\ r.prevTotal > 0 =>
         /\ r.change # Null
         /\ \A v \in r.change :
              LET twice == 200 * (r.current - r.prevTotal) - 2 * v * r.prevTotal
              IN twice <= r.prevTotal /\ 0 - twice <= r.prevTotal
    /\ (r.prevTotal = 50 /\ r.current = 75) => r.change = Some(50)
    /\ (r.prevTotal = 100 /\ r.current = 80) => r.change = Some(0 - 20)

\* The drop from 100 to 80 was computed
C17_Witness_MinusTwenty ==
  report = Some([current |-> 80, prevTotal |-> 100, change |-> Some(0 - 20)])

----------------------------------------------------------------------------
(* Dashboard: periods and ranges *)

\* The totals the dashboard has just read, if this step read them
TotalsRead == IF report' # report /\ report' # Null
                 /\ "totals" \in DOMAIN Val(report')
              THEN report' ELSE {}

\* Rows and hits by the instant they stand for
FirstVisits == {h \in hits : h.first_visit = 1}
HoursWithin(from, to) == {k \in DOMAIN hit_counts : from <= k[2] /\ k[2] <= to}
HitsWithin(from, to) ==
  {h \in FirstVisits : from <= h.created_at /\ h.created_at <= to}

C19_HalfOpenRange ==
  [][ \A r \in TotalsRead :
        LET start == DateParse(r.start)
            end == DateParse(r.end)
        IN /\ r.totals.totalVisitors = Cardinality(HitsWithin(start, end - 1))
           /\ r.totals.totalHits = Sum(hit_counts, HoursWithin(start, end - 1))
    ]_vars

\* C19, amended: for the periods the dashboard asks for (from the first
\* millisecond of a day to the last millisecond of a day) and their
\* previous periods, reads use the closed range [start, end] --
\* getTotalVisitors counts exactly the first visits with
\* start <= created_at <= end, a hit stamped exactly at end included, and
\* getTotalHits sums exactly the hourly rows with start <= hour <= end.
C19_ClosedRange ==
  [][ \A r \in TotalsRead :
        LET start == DateParse(r.start)
            end == DateParse(r.end)
            prevStart == DateParse(r.totals.previous.prevStart)
            prevEnd == DateParse(r.totals.previous.prevEnd)
        IN /\ r.totals.totalVisitors = Cardinality(HitsWithin(start, end))
           /\ r.totals.totalHits = Sum(hit_counts, HoursWithin(start, end))
           /\ r.totals.previous.visitors =
                Cardinality(HitsWithin(prevStart, prevEnd))
           /\ r.totals.previous.hits =
                Sum(hit_counts, HoursWithin(prevStart, prevEnd))
    ]_vars

\* The dashboard read the first day and counted the first visit stamped in
\* its last millisecond, the end of the range
C19_Witness_HitAtEndCounted ==
  \E r \in report :
    /\ "totals" \in DOMAIN r
    /\ r.end = toISOString(Day - 1)
    /\ \E h \in FirstVisits : h.created_at = DateParse(r.end)
    /\ r.totals.totalVisitors = Cardinality(FirstVisits)
    /\ r.totals.totalHits = 2

----------------------------------------------------------------------------
(* Dashboard: top pages *)

\* The top pages the dashboard has just read, if this step read them
TopPagesRead == IF report' # report /\ report' # Null
                   /\ "top" \in DOMAIN Val(report')
                THEN report' ELSE {}

\* The total of a path over the hourly rows between two instants
PathTotal(id, from, to) ==
  Sum(hit_counts, {k \in HoursWithin(from, to) : k[1] = id})

----------------------------------------------------------------------------
(* Dashboard: granularity *)

\* The length of the parsed window in days, rounded up
WindowDays(r) == DaysApart(r.parsed.start, r.parsed.end)

\* C21: without an hl parameter parsePeriodExtended returns granularity
\* 'hour' for a window of 7 days or less and 'day' for a longer one; an hl
\* of 'hour' or 'day' is returned as it is.
C21_DefaultGranularity ==
  \A r \in report :
    /\ r.searchParams.hl = Null =>
         r.parsed.granularity = IF WindowDays(r) <= 7 THEN "hour" ELSE "day"
    /\ r.searchParams.hl \in {Some("hour"), Some("day")} =>
         r.parsed.granularity = Val(r.searchParams.hl)

----------------------------------------------------------------------------
(* Referrers: host aliases and listing suffixes *)

RedditHosts ==
  {"old.reddit.com", "i.reddit.com", "np.reddit.com", "www.reddit.com"}

\* C22: host aliasing comes before the per-site rules:
\* https://old.reddit.com/r/test/top is normalized to www.reddit.com/r/test
\* with scheme http, and the suffixes /top, /new, /search and .compact are
\* cut off for old., i., np. and www.reddit.com alike.
C22_AliasedRedditStripped ==
  \A x \in report :
    /\ x.r = "https://old.reddit.com/r/test/top" =>
         x.refData = [ref |-> "www.reddit.com/r/test", scheme |-> "h"]
    /\ \A host \in RedditHosts,
          suffix \in {"/top", "/new", "/search", ".compact"} :
         x.r = "https://" \o host \o "/r/test" \o suffix =>
           x.refData = [ref |-> "www.reddit.com/r/test", scheme |-> "h"]

----------------------------------------------------------------------------
(* Referrers: spam *)

\* The raw referrers of the requests that hold a blocklisted domain, in
\* capitals or not
SpamReferrers ==
  {r \in {h.r.raw : h \in RawHits} :
     \E spam \in SPAM_PATTERNS : Contains(toLowerCase(r), spam)}

\* The request the task in slot t works on in this step
StepRequest(t) == IF task[t].req # Null THEN task[t].req ELSE task'[t].req

\* C23: a raw referrer that holds a blocklisted spam domain, in capitals or
\* not and with or without a utm_/campaign marker, is normalized to '' with
\* scheme other; its hit resolves to referrer id 1, no step of its task
\* adds a row to refs or touches ref_counts, and its raw hit carries
\* ref_id 1.
C23_SpamNeverRecorded ==
  [][\A t \in Tasks : \A q \in StepRequest(t) :
       q.refData.raw \in SpamReferrers =>
         /\ q.refData.ref = "" /\ q.refData.scheme = "o"
         /\ task'[t].req # Null =>
              task'[t].dpc["ref"] = "done" /\ task'[t].ids["ref"] = 1
         /\ refs' = refs
         /\ ref_counts' = ref_counts
         /\ \A h \in hits' \ hits : h.ref_id = 1]_vars

\* The first visit with the spam referrer that carries a campaign marker
\* has been recorded, and a campaign link before it has its referrer row
C23_Witness_SpamWithCampaign ==
  /\ task[1].main = "firsthit"
  /\ Contains(Val(task[1].req).refData.raw, "Best-SEO-Offer.com")
  /\ Contains(Val(task[1].req).refData.raw, "utm_")
  /\ Cardinality(hits) = 2
  /\ \E h \in hits : h.ref_id = 1 /\ h.first_visit = 1
  /\ \E r \in refs : r.ref_scheme = "c"
  /\ Cardinality(DOMAIN ref_counts) = 1

----------------------------------------------------------------------------
(* User agents: the order of the rules *)

\* The names parseBrowser gives, in the order of its rules
BrowserRuleNames ==
  <<"Edge", "Opera", "Samsung Browser", "UC Browser", "Brave", "Firefox",
    "Chrome", "Chromium", "Safari", "Internet Explorer", "curl", "Wget">>

\* Whether the header carries what the rule with this name looks for
RuleApplies(name, ua) ==
  CASE name = "Edge" ->
         MatchVersion(ua, {"Edg/", "Edge/", "EdgA/", "EdgiOS/"}) # Null
    [] name = "Opera" -> MatchVersion(ua, {"OPR/", "Opera/"}) # Null
    [] name = "Samsung Browser" ->
         MatchVersion(ua, {"SamsungBrowser/"}) # Null
    [] name = "UC Browser" -> MatchVersion(ua, {"UCBrowser/"}) # Null
    [] name = "Brave" ->
         Contains(ua, "Brave") /\ MatchVersion(ua, {"Chrome/"}) # Null
    [] name = "Firefox" -> MatchVersion(ua, {"Firefox/"}) # Null
    [] name = "Chrome" ->
         MatchVersion(ua, {"Chrome/"}) # Null /\ ~Contains(ua, "Chromium")
    [] name = "Chromium" -> MatchVersion(ua, {"Chromium/"}) # Null
    [] name = "Safari" ->
         \/ MatchSafariVersion(ua) # Null
         \/ Contains(ua, "Safari") /\ ~Contains(ua, "Chrome")
    [] name = "Internet Explorer" ->
         MatchVersion(ua, {"MSIE ", "rv:"}) # Null /\ Contains(ua, "Trident")
    [] name = "curl" -> MatchVersion(ua, {"curl/"}) # Null
    [] name = "Wget" -> MatchVersion(ua, {"Wget/"}) # Null

\* The positions in BrowserRuleNames of the rules that apply to the header
RulesApplying(ua) ==
  {i \in 1..Len(BrowserRuleNames) : RuleApplies(BrowserRuleNames[i], ua)}

\* C24: the browser of a header is the one of the earliest rule that
\* applies to it, in the order Edge, Opera, Samsung Browser, UC Browser,
\* Brave, Firefox, Chrome (not with Chromium in the header), Chromium,
\* Safari, Internet Explorer, curl, Wget, and none when no rule applies; a
\* header that names an iPhone, iPad or iPod and also holds "Mac OS X" has
\* the system iOS.
C24_FirstMatchWins ==
  \A r \in report :
    /\ r.parsed.browserName =
         IF RulesApplying(r.userAgent) = {} THEN ""
         ELSE BrowserRuleNames[Least(RulesApplying(r.userAgent))]
    /\ /\ \E device \in {"iPhone", "iPad", "iPod"} :
            Contains(r.userAgent, device)
       /\ Contains(r.userAgent, "Mac OS X")
       => r.parsed.osName = "iOS"

\* An iPhone header with the tokens of Edge and Safari and with Mac OS X
\* was parsed: Edge on iOS
C24_Witness_EdgeOnIPhone ==
  \E r \in report :
    /\ Contains(r.userAgent, "iPhone") /\ Contains(r.userAgent, "Mac OS X")
    /\ Cardinality(RulesApplying(r.userAgent)) >= 2
    /\ r.parsed.browserName = "Edge" /\ r.parsed.osName = "iOS"

----------------------------------------------------------------------------
(* User agents: versions *)

\* The number of dots in a version
Dots(version) ==
  Cardinality({i \in 1..Len(version) : Slice(version, i, i) = "."})

\* C25: every version parseUA returns has at most two numeric components,
\* separated by a dot; a Firefox 122 desktop header has the browser version
\* "122".
C25_MajorMinorOnly ==
  \A r \in report :
    /\ Dots(r.parsed.browserVersion) <= 1
    /\ Dots(r.parsed.osVersion) <= 1
    /\ ~Contains(r.parsed.osVersion, "_")
    /\ Contains(r.userAgent, "Gecko/20100101 Firefox/122.0")
       => r.parsed.browserVersion = "122"

----------------------------------------------------------------------------
(* Privacy: what is stored of the address and the User-Agent header *)

\* The address and the header of a request
ClientPair(h) == <<ClientIp(h), h.userAgent.raw>>

\* The session hash of a request
HashOf(h) == generateSessionHash(ClientIp(h), h.userAgent.raw)

\* The texts in the rows of the relational store.  The other columns hold
\* ids, numbers, instants and the session hash; the rollup tables hold ids,
\* buckets, widths and locations; a session record holds its id, path ids
\* and an instant.
StoredTexts ==
  UNION {{r.path, r.title} : r \in paths}
  \cup {r.ref : r \in refs}
  \cup UNION {{r.name, r.version} : r \in browsers \cup systems}
  \cup {r.location : r \in hits}

\* C26: no text in the relational store holds the address or the
\* User-Agent header of a request; the session column of a raw hit and the
\* key of a session record are the hash of `ip|userAgent` of a request; and
\* two requests have the same hash, hence the same session record, exactly
\* when they have the same address and the same header.
C26_OnlyTheHashIsStored ==
  /\ \A h1, h2 \in RawHits : HashOf(h1) = HashOf(h2) <=> ClientPair(h1) = ClientPair(h2)
  /\ \A h \in RawHits : \A text \in StoredTexts :
       ~Contains(text, ClientIp(h)) /\ ~Contains(text, h.userAgent.raw)
  /\ \A row \in hits : \E h \in RawHits : row.session = HashOf(h)
  /\ \A key \in DOMAIN kv : \E h \in RawHits : key = <<"session:", HashOf(h)>>
  /\ \A t \in Tasks : \A q \in task[t].req :
       \E h \in RawHits : q.ip = ClientIp(h) /\ q.ua.raw = h.userAgent.raw
                          /\ SessionKey(q) = <<"session:", HashOf(h)>>

\* Two hits of one address with different browsers are recorded in two
\* sessions, and the browser and the system of one are stored by name
C26_Witness_TwoSessions ==
  /\ Cardinality(hits) = 2
  /\ Cardinality({row.session : row \in hits}) = 2
  /\ DOMAIN kv = {<<"session:", generateSessionHash("10.0.0.1", UA_EDGE)>>,
                  <<"session:", generateSessionHash("10.0.0.1", UA_BAR)>>}
  /\ \E r \in browsers : r.name = "Edge"
  /\ \E r \in systems : r.name = "Windows"

----------------------------------------------------------------------------
(* Settings: first_hit_at *)

\* C27: first_hit_at changes only from NULL to the instant of the step, and
\* once it is not NULL no step of any task, however the tasks interleave,
\* changes it.
C27_FirstHitSetOnce ==
  [][/\ settings.first_hit_at # Null =>
          settings'.first_hit_at = settings.first_hit_at
     /\ settings'.first_hit_at # settings.first_hit_at =>
          /\ settings.first_hit_at = Null
          /\ settings'.first_hit_at = Some(now)
          /\ \E t \in Tasks : task[t].main = "firsthit"]_vars

\* Two tasks ran side by side; the second came to updateFirstHit at a later
\* instant than the one stored, and the stored instant is still the first
C27_Witness_SecondLater ==
  /\ settings.first_hit_at # Null
  /\ Val(settings.first_hit_at) < now
  /\ Cardinality(hits) = 2
  /\ task[1].main = "firsthit" /\ task[2].main = "idle"

----------------------------------------------------------------------------
(* Storage failures: the hit is dropped and nothing is retried *)

\* The stages of processHit that follow the resolution of the dimensions
LaterStages == {"kvput", "batch", "firsthit", "done"}

\* C28: a storage failure in the resolution of a dimension, in the session
\* step or in the batch ends processHit: the task goes to no later stage,
\* writes neither the session store nor the rollup tables nor the settings
\* afterwards, a failed call is not started again, a get-or-create call
\* issues at most two statements, and the batch is submitted once at most
\* for a request: a task leaves the batch stage with every step it takes
\* there and enters it only from the session step.
C28_DroppedNotRetried ==
  [][\A t \in Tasks :
       /\ \A d \in Dims :
            task[t].dpc[d] # "failed" /\ task'[t].dpc[d] = "failed" =>
              task'[t].main = "dropped"
       /\ errLog' # errLog /\ task'[t] # task[t] =>
            task'[t].main \in {"dropped", "idle"}
       /\ task[t].main = "dropped" =>
            /\ task'[t].main \in {"dropped", "idle"}
            /\ kv' = kv /\ settings' = settings
            /\ UNCHANGED aggTables
            /\ \A d \in Dims :
                 task[t].dpc[d] = "failed" =>
                   task'[t].dpc[d] = "failed" \/ task'[t].main = "idle"
       /\ task[t].main = "batch" /\ task'[t] # task[t] =>
            task'[t].main \in {"firsthit", "done", "dropped", "idle"}
       /\ task'[t].main = "batch" /\ task[t].main # "batch" =>
            task[t].main \in {"resolve", "kvput"}
       /\ \A d \in Dims : task'[t].stmts[d] <= 2]_vars

\* Three requests were accepted; one was dropped in the resolution of a
\* dimension, one in the session step and one in the batch, and no hit is
\* stored
C28_Witness_AllDropped ==
  /\ started = 3 /\ NoTaskRuns
  /\ hits = {} /\ hit_counts = Empty
  /\ {"getOrCreateSession", "updateStats"} \subseteq {e.op : e \in errLog}
  /\ \E e \in errLog : e.error = "D1_ERROR" /\ e.op # "updateStats"

----------------------------------------------------------------------------
(* Cleanup job: what the vacuum may delete *)

RefIds(rows) == {r.ref_id : r \in rows}
BrowserIds(rows) == {r.browser_id : r \in rows}
SystemIds(rows) == {r.system_id : r \in rows}

\* Every key of the table before the step is a key after it
KeepsRows(before, after) == DOMAIN before \subseteq DOMAIN after

\* C29: a step deletes a referrer, browser or OS row only if the row's id is
\* greater than 1 and, in the state the delete runs in, no raw hit and no
\* aggregate row of that dimension carries the id; and while
\* data_retention_days is 0 no step of the cleanup job removes a raw hit or
\* a row of a time-bucketed aggregate table.
C29_VacuumOnlyUnreferenced ==
  [][/\ \A id \in RefIds(refs) \ RefIds(refs') :
          /\ id > 1
          /\ \A h \in hits : h.ref_id # id
          /\ \A k \in DOMAIN ref_counts : k[2] # id
     /\ \A id \in BrowserIds(browsers) \ BrowserIds(browsers') :
          /\ id > 1
          /\ \A h \in hits : h.browser_id # id
          /\ \A k \in DOMAIN browser_stats : k[2] # id
     /\ \A id \in SystemIds(systems) \ SystemIds(systems') :
          /\ id > 1
          /\ \A h \in hits : h.system_id # id
          /\ \A k \in DOMAIN system_stats : k[2] # id
     /\ (job' # job /\ settings.data_retention_days = 0) =>
          /\ hits \subseteq hits'
          /\ KeepsRows(hit_counts, hit_counts')
          /\ KeepsRows(hit_stats, hit_stats')
          /\ KeepsRows(ref_counts, ref_counts')
          /\ KeepsRows(browser_stats, browser_stats')
          /\ KeepsRows(system_stats, system_stats')
          /\ KeepsRows(location_stats, location_stats')
          /\ KeepsRows(size_stats, size_stats')]_vars

\* The job, begun two days after a hit with data_retention_days 0, has
\* vacuumed a referrer row that a failed batch left behind; the hit of two
\* days ago and its hourly and daily rows are still stored
C29_Witness_OldRowsKept ==
  /\ job = "browsers"
  /\ settings.data_retention_days = 0
  /\ \E h \in hits : h.created_at + 2 * Day <= now
  /\ \E k \in DOMAIN hit_counts : k[2] + 2 * Day <= now
  /\ \E k \in DOMAIN hit_stats : k[2] + 2 <= formatDay(now)
  /\ \E id \in 2..sqlite_sequence["refs"] : id \notin RefIds(refs)
  /\ \E e \in errLog : e.op = "updateStats"

----------------------------------------------------------------------------
(* Auth guard: which requests reach a route handler *)

\* The request the guard holds or has answered went on to its handler
PassedOn == guard.request # Null /\ guard.next

\* The request carries a session cookie whose token the session store held
\* when the guard looked it up
CarriesStoredSession(request) ==
  /\ request.sent.token # Null
  /\ AuthKey(Val(request.sent.token)) \in guard.store

\* The request carries Basic credentials with the dashboard password
CarriesPassword(request) ==
  request.sent.password = Some(DASHBOARD_PASSWORD)

\* C30: a request to a path other than /api/count and /login goes on to its
\* route handler only if it carries a session cookie whose token is in the
\* session store or a Basic-Auth header with the dashboard password; any
\* other request is answered with the redirect to /login or with 401.
C30_GuardProtectsAllButCountAndLogin ==
  /\ PassedOn =>
       \/ Val(guard.request).pathname \in {"/api/count", "/login"}
       \/ CarriesStoredSession(Val(guard.request))
       \/ CarriesPassword(Val(guard.request))
  /\ (guard.stage = "answered" /\ ~guard.next) =>
       guard.answer \in {"302 /login", "401 Unauthorized"}

\* A request to /logout without a session cookie, whose Basic credentials
\* carry the password "secret:x", has gone on to the handler with a new
\* session
C30_Witness_LongerPasswordPasses ==
  /\ guard.stage = "answered"
  /\ guard.next
  /\ guard.setCookie # Null
  /\ Val(guard.request).pathname = "/logout"
  /\ Val(guard.request).sent.token = Null
  /\ Val(guard.request).sent.password = Some("secret:x")

----------------------------------------------------------------------------
(* processHit: the order of its steps *)

\* The step submits the batch of updateStats: the rollup tables are
\* written, or the batch fails, or the task leaves the batch stage
BatchSubmitted(t) ==
  \/ hits' # hits
  \/ \E e \in errLog' \ errLog : e.op = "updateStats"
  \/ task[t].main = "batch" /\ task'[t].main # "batch"

\* The step belongs to getOrCreateSession: the session store is read or
\* written, or the call fails
SessionStep(t) ==
  \/ kv' # kv \/ sidSeq' # sidSeq \/ sessLog' # sessLog
  \/ \E e \in errLog' \ errLog : e.op = "getOrCreateSession"
  \/ task[t].main = "kvput" /\ task'[t].main # "kvput"
  \/ task'[t].main = "kvput" /\ task[t].main # "kvput"

\* The step belongs to updateFirstHit
FirstHitStep(t) ==
  \/ settings' # settings
  \/ task[t].main = "firsthit" /\ task'[t].main # "firsthit"

\* The id of dimension d has been returned to the task
Resolved(rec, d) ==
  /\ rec.dpc[d] = "done"
  /\ rec.ids[d] >= 1
  /\ \E r \in resLog : r.dim = d /\ r.id = rec.ids[d]

\* getOrCreateSession has returned to the task: the last session result is
\* the one for its client and its path
SessionReturned(rec) ==
  /\ sessLog # <<>>
  /\ sessLog[Len(sessLog)].sessionHash = SessionKey(Val(rec.req))[2]
  /\ sessLog[Len(sessLog)].pathId = rec.ids["path"]

\* The batch of the task has been applied: the last raw hit is its hit
BatchApplied(rec) ==
  \E h \in hits :
    /\ h.hit_id = sqlite_sequence["hits"]
    /\ h.path_id = rec.ids["path"]
    /\ h.session = SessionKey(Val(rec.req))[2]
    /\ h.first_visit = 1

\* C31: for the task that runs, a step that submits the batch is taken
\* when all four dimension ids have been returned and getOrCreateSession
\* has returned; a step of getOrCreateSession is taken when the path id
\* (with the other three) has been returned; a step of updateFirstHit is
\* taken when the batch of the task has been applied and its hit is a first
\* visit.  Before that the steps of the four get-or-create calls are not
\* ordered among each other.
C31_StepsOrdered ==
  [][\A t \in Tasks : task[t].req # Null =>
       /\ BatchSubmitted(t) =>
            /\ \A d \in Dims : Resolved(task[t], d)
            /\ SessionReturned(task[t])
       /\ SessionStep(t) => \A d \in Dims : Resolved(task[t], d)
       /\ FirstHitStep(t) => BatchApplied(task[t])]_vars

\* updateFirstHit is about to run for a first visit whose referrer and
\* browser rows were created by the task itself
C31_Witness_FirstHitAfterBatch ==
  /\ task[1].main = "firsthit"
  /\ BatchApplied(task[1])
  /\ task[1].ids["ref"] > 1 /\ task[1].ids["browser"] > 1
  /\ task[1].stmts["ref"] = 2 /\ task[1].stmts["browser"] = 2
  /\ \E e \in errLog : e.op = "updateStats"

----------------------------------------------------------------------------
(* Hit aggregator: batches submitted in any order *)

\* The raw hits and the first visits among them that fall under a key
HitsAt(pathId, hour) ==
  {h \in hits : h.path_id = pathId /\ formatHour(h.created_at) = hour}

HitsOn(pathId, day) ==
  {h \in hits : h.path_id = pathId /\ formatDay(h.created_at) = day}

FirstVisitRows(rows) == {h \in rows : h.first_visit = 1}

\* What the seven rollup tables hold when the increment of every raw hit
\* has been applied once, in whatever order
CountedOnce ==
  [hit_counts |->
     [k \in {<<h.path_id, formatHour(h.created_at)>> : h \in hits} |->
        Cardinality(HitsAt(k[1], k[2]))],
   hit_stats |->
     [k \in {<<h.path_id, formatDay(h.created_at)>> : h \in hits} |->
        [i \in 0..23 |->
           Cardinality({h \in HitsOn(k[1], k[2]) :
                          getUTCHours(h.created_at) = i})]],
   ref_counts |->
     [k \in {<<h.path_id, h.ref_id, formatHour(h.created_at)>> :
               h \in {x \in FirstVisitRows(hits) : x.ref_id > 1}} |->
        Cardinality({h \in FirstVisitRows(HitsAt(k[1], k[3])) :
                       h.ref_id = k[2]})],
   browser_stats |->
     [k \in {<<h.path_id, h.browser_id, formatDay(h.created_at)>> :
               h \in {x \in FirstVisitRows(hits) : x.browser_id > 1}} |->
        Cardinality({h \in FirstVisitRows(HitsOn(k[1], k[3])) :
                       h.browser_id = k[2]})],
   system_stats |->
     [k \in {<<h.path_id, h.system_id, formatDay(h.created_at)>> :
               h \in {x \in FirstVisitRows(hits) : x.system_id > 1}} |->
        Cardinality({h \in FirstVisitRows(HitsOn(k[1], k[3])) :
                       h.system_id = k[2]})],
   location_stats |->
     [k \in {<<h.path_id, formatDay(h.created_at), h.location>> :
               h \in {x \in FirstVisitRows(hits) : x.location # ""}} |->
        Cardinality({h \in FirstVisitRows(HitsOn(k[1], k[2])) :
                       h.location = k[3]})],
   size_stats |->
     [k \in {<<h.path_id, formatDay(h.created_at), Val(h.width)>> :
               h \in {x \in FirstVisitRows(hits) :
                        x.width # Null /\ Val(x.width) > 0}} |->
        Cardinality({h \in FirstVisitRows(HitsOn(k[1], k[2])) :
                       h.width = Some(k[3])})]]

\* C32: when the batches of tasks that run side by side are applied in any
\* order, the seven rollup tables hold in every state exactly what the raw
\* hits recorded so far give when each one's increment is counted once: the
\* contents depend on which hits were recorded, not on the order of their
\* batches, and no increment is lost or doubled.
C32_IncrementsCommute ==
  /\ hit_counts = CountedOnce.hit_counts
  /\ hit_stats = CountedOnce.hit_stats
  /\ ref_counts = CountedOnce.ref_counts
  /\ browser_stats = CountedOnce.browser_stats
  /\ system_stats = CountedOnce.system_stats
  /\ location_stats = CountedOnce.location_stats
  /\ size_stats = CountedOnce.size_stats

\* Two clients' hits to one path in one hour were recorded, the batch of
\* the task whose session was resolved second having been applied first
C32_Witness_BatchesOutOfOrder ==
  /\ Len(sessLog) = 2
  /\ sessLog[1].sessionHash # sessLog[2].sessionHash
  /\ \E h1, h2 \in hits :
       /\ h1.hit_id = 1 /\ h2.hit_id = 2
       /\ h1.session = sessLog[2].sessionHash
       /\ h2.session = sessLog[1].sessionHash
       /\ h1.path_id = h2.path_id
       /\ hit_counts[<<h1.path_id, formatHour(h1.created_at)>>] = 2
       /\ hit_stats[<<h1.path_id, formatDay(h1.created_at)>>]
            [getUTCHours(h1.created_at)] = 2

----------------------------------------------------------------------------
(* Hit aggregator: the 24 slots of a day *)

\* Every stats array of the table has the slots 0..23, none negative
TwentyFourCounts(table) ==
  \A k \in DOMAIN table :
    DOMAIN table[k] = 0..23 /\ \A i \in 0..23 : table[k][i] \in Nat

\* C33: every hit_stats row holds 24 counts, none negative, after every
\* step; a step that records a raw hit for a (path, day) without a row
\* inserts 24 zeros with a 1 at the UTC hour of the hit; one for a
\* (path, day) with a row adds 1 to the slot of the hit's UTC hour and
\* leaves the other 23 slots as they were; the rows of other keys are not
\* touched.
C33_TwentyFourSlots ==
  [][/\ TwentyFourCounts(hit_stats')
     /\ \A new \in hits' \ hits :
          LET key == <<new.path_id, formatDay(new.created_at)>>
              slot == getUTCHours(new.created_at)
          IN /\ key \in DOMAIN hit_stats'
             /\ \A i \in 0..23 :
                  hit_stats'[key][i] =
                    (IF key \in DOMAIN hit_stats THEN hit_stats[key][i] ELSE 0)
                    + (IF i = slot THEN 1 ELSE 0)
             /\ \A k \in DOMAIN hit_stats' \ {key} :
                  k \in DOMAIN hit_stats /\ hit_stats'[k] = hit_stats[k]]_vars

\* One path has, for one day, two hits in the hour from 07:00 and one in
\* the hour from 15:00, and a row for the day before
C33_Witness_TwoSlotsOfADay ==
  \E k \in DOMAIN hit_stats :
    /\ hit_stats[k][7] = 2
    /\ hit_stats[k][15] = 1
    /\ \A i \in 0..23 \ {7, 15} : hit_stats[k][i] = 0

----------------------------------------------------------------------------
(* Dimension resolver: what a later hit may change of a path *)

\* getOrCreatePath of the task returns in this step
PathReturns(t) ==
  /\ task[t].req # Null /\ task'[t].req # Null
  /\ task[t].dpc["path"] # "done"
  /\ task'[t].dpc["path"] = "done"

\* C34: every step keeps every paths row with its id, its path and its
\* event flag, and changes its title only to the non-empty title of a
\* running request for that path; and when getOrCreatePath returns for a
\* path that had a row, it returns the id of that row, and the row then
\* holds the title of the request if that is not empty and the title it
\* held before if it is.
C34_OnlyTheTitleChanges ==
  [][/\ \A r \in paths : \E r2 \in paths' :
          /\ r2.path_id = r.path_id /\ r2.path = r.path /\ r2.event = r.event
          /\ r2.title # r.title =>
               \E t \in Tasks : \E q \in task[t].req :
                 q.path = r.path /\ q.title # "" /\ q.title = r2.title
     /\ \A t \in Tasks : PathReturns(t) =>
          \A q \in task[t].req : \A r \in paths : r.path = q.path =>
            /\ task'[t].ids["path"] = r.path_id
            /\ \E r2 \in paths' :
                 /\ r2.path_id = r.path_id
                 /\ r2.title = IF q.title # "" THEN q.title ELSE r.title]_vars

\* The path /a, created by a page view without a title, took the title of
\* a later event hit and kept it, with its event flag 0, through a third
\* hit without a title
C34_Witness_TitleOfLaterHit ==
  /\ NoTaskRuns
  /\ \E r \in paths :
       /\ r.path = "/a" /\ r.title = "Home" /\ r.event = 0
       /\ Cardinality({h \in hits : h.path_id = r.path_id}) = 3
       /\ \E h1, h3 \in hits :
            /\ h1.hit_id = 1 /\ h3.hit_id = 3
            /\ h1.path_id = r.path_id /\ h3.path_id = r.path_id
            /\ h1.session = h3.session

----------------------------------------------------------------------------
(* Hit aggregator: the hourly counts, the daily slots and the raw hits *)

\* The paths and days that a raw hit, an hourly count or a daily row names
CountedPathDays ==
  {<<h.path_id, formatDay(h.created_at)>> : h \in hits}
    \cup {<<k[1], formatDay(k[2])>> : k \in DOMAIN hit_counts}
    \cup DOMAIN hit_stats

\* The 24 slots of a path's day, all zero where no row exists
SlotsOf(pathId, day) ==
  IF <<pathId, day>> \in DOMAIN hit_stats THEN hit_stats[<<pathId, day>>]
  ELSE [i \in 0..23 |-> 0]

\* hit_counts.total of a path's hour, zero where no row exists
TotalOf(pathId, hour) ==
  IF <<pathId, hour>> \in DOMAIN hit_counts THEN hit_counts[<<pathId, hour>>]
  ELSE 0

\* C35: as long as no retention delete has run, for every path and day the
\* 24 slots of hit_stats add up to the hourly totals of hit_counts over that
\* day, and both to the number of raw hit rows of the path on that day; slot
\* h is the total of hour h; and hit_counts has a row, with a total of at
\* least 1, exactly for the paths and hours that have a raw hit.
C35_RollupsAgree ==
  /\ \A pd \in CountedPathDays :
       LET slots == SlotsOf(pd[1], pd[2])
           totals == [i \in 0..23 |-> TotalOf(pd[1], pd[2] * Day + i * Hour)]
       IN /\ DOMAIN slots = 0..23
          /\ \A i \in 0..23 : slots[i] = totals[i]
          /\ Sum(slots, 0..23) = Sum(totals, 0..23)
          /\ Sum(slots, 0..23) = Cardinality(HitsOn(pd[1], pd[2]))
  /\ \A k \in DOMAIN hit_counts :
       hit_counts[k] >= 1 /\ HitsAt(k[1], k[2]) # {}
  /\ \A h \in hits : <<h.path_id, formatHour(h.created_at)>> \in DOMAIN hit_counts

\* One path has raw hits in two hours of one day and in the last hour of
\* the day before: three hourly rows and two daily rows stand for them
C35_Witness_TwoDaysOfAPath ==
  \E p \in {r.path_id : r \in paths} : \E d \in {pd[2] : pd \in CountedPathDays} :
    /\ Cardinality(HitsOn(p, d)) = 2
    /\ Cardinality({formatHour(h.created_at) : h \in HitsOn(p, d)}) = 2
    /\ Cardinality(HitsOn(p, d - 1)) = 1
    /\ <<p, d>> \in DOMAIN hit_stats /\ <<p, d - 1>> \in DOMAIN hit_stats
    /\ Cardinality({k \in DOMAIN hit_counts : k[1] = p}) = 3

----------------------------------------------------------------------------
(* Session tracker: two hits of one client side by side *)

\* The session stored for a session hash, if one is live
StoredSession(sessionHash) == KvGet(<<"session:", sessionHash>>)

\* The entries of sessLog by which a path was put into a session that has
\* not reached its expiry since
LivePuts ==
  {i \in DOMAIN sessLog :
     sessLog[i].firstVisit /\ now < sessLog[i].at + SESSION_TTL}

\* C36: no path is lost from a session. A path that a hit has put into the
\* session of its client is in the stored session for as long as the
\* session lives, also when another hit of the client to another path was
\* processed at the same time, and a later hit to it is not a first visit;
\* and the hits of one client within the life of a session are given one
\* session, not one each of which the later write replaces the earlier.
C36_NoPathLost ==
  /\ \A i \in LivePuts :
       /\ StoredSession(sessLog[i].sessionHash) # Null
       /\ Includes(Val(StoredSession(sessLog[i].sessionHash)).pathsSeen,
                   sessLog[i].pathId)
  /\ \A i \in LivePuts : \A j \in DOMAIN sessLog :
       /\ j > i
       /\ sessLog[j].sessionHash = sessLog[i].sessionHash
       /\ sessLog[j].at < sessLog[i].at + SESSION_TTL
       => sessLog[j].sessionId = sessLog[i].sessionId

\* Both tasks have finished, the two hits of the client are recorded as
\* first visits of /a and /b, and the stored session names one path only
C36_Witness_PathOverwritten ==
  /\ NoTaskRuns
  /\ Cardinality(hits) = 2
  /\ Cardinality({h.path_id : h \in FirstVisitRows(hits)}) = 2
  /\ Cardinality({h.session : h \in hits}) = 1
  /\ \E h \in hits :
       /\ StoredSession(h.session) # Null
       /\ Len(Val(StoredSession(h.session)).pathsSeen) = 1

----------------------------------------------------------------------------
(* Session tracker: paths seen and recorded first visits *)

\* The session hashes that have a live session in the session store
LiveSessions == {k[2] : k \in {x \in DOMAIN kv : x[1] = "session:"}}

\* A task holds a first visit of the path by the session, returned by
\* getOrCreateSession, whose batch is still to be applied
FirstVisitInFlight(sessionHash, pathId) ==
  \E t \in Tasks :
    /\ task[t].main = "batch"
    /\ task[t].firstVisit
    /\ ProcessedHit(task[t]).session = sessionHash
    /\ ProcessedHit(task[t]).pathId = pathId

\* C37: a path is marked as seen in a session only together with a
\* recorded first visit: for every live session and every path in its
\* pathsSeen, a raw hit row of that session and path with first_visit = 1
\* exists, or the task that put the path there has its batch still before
\* it; also when the batch of the first visit has failed.
C37_SeenOnlyWithFirstVisit ==
  \A s \in LiveSessions :
    LET pathsSeen == Val(StoredSession(s)).pathsSeen
    IN \A i \in DOMAIN pathsSeen :
         \/ \E h \in hits :
              h.session = s /\ h.path_id = pathsSeen[i] /\ h.first_visit = 1
         \/ FirstVisitInFlight(s, pathsSeen[i])

\* The batch of a first visit failed and its task has ended: the path is in
\* the stored session, no raw hit row of the session exists, and the
\* failure is in the error log
C37_Witness_SeenWithoutHit ==
  /\ NoTaskRuns
  /\ \E e \in errLog : e.op = "updateStats"
  /\ \E s \in LiveSessions :
       /\ Len(Val(StoredSession(s)).pathsSeen) = 1
       /\ \A h \in hits : h.session # s

----------------------------------------------------------------------------
(* Cleanup job: the vacuum beside a running processHit *)

\* Every raw hit and every ref_counts, browser_stats and system_stats row
\* names a referrer, browser and system row that exists
ReferencesExist ==
  /\ \A h \in hits :
       /\ h.ref_id \in RefIds(refs)
       /\ h.browser_id \in BrowserIds(browsers)
       /\ h.system_id \in SystemIds(systems)
  /\ \A k \in DOMAIN ref_counts : k[2] \in RefIds(refs)
  /\ \A k \in DOMAIN browser_stats : k[2] \in BrowserIds(browsers)
  /\ \A k \in DOMAIN system_stats : k[2] \in SystemIds(systems)

\* C38: referential integrity holds while hits are taken in and the vacuum
\* runs: every raw hit row and every ref_counts, browser_stats and
\* system_stats row references a referrer, browser and system row that
\* exists, also when the vacuum runs between the dimension resolution of a
\* processHit task and its batch; and the vacuum running there does not
\* make the batch fail: the rows a task has resolved exist when its batch
\* is due, and no batch is rejected for a foreign key.
C38_VacuumBesideIngestion ==
  /\ ReferencesExist
  /\ \A t \in Tasks :
       task[t].main = "batch" => ForeignKeysHold(ProcessedHit(task[t]))
  /\ \A e \in errLog : e.error # "FOREIGN KEY"

\* The vacuum deleted a row that a task had resolved and not yet used: the
\* batch of the task was rejected for the foreign key, the task has ended
\* and its hit is in no table
C38_Witness_BatchRejected ==
  /\ NoTaskRuns
  /\ started = 1
  /\ hits = {}
  /\ hit_counts = << >>
  /\ [op |-> "updateStats", error |-> "FOREIGN KEY"] \in errLog

----------------------------------------------------------------------------
(* Dashboard sessions: login, validation, logout *)

\* The tokens whose auth: key the step stores or stores anew
StoredInStep ==
  {token \in Tokens :
     /\ AuthKey(token) \in DOMAIN kv'
     /\ AuthKey(token) \in DOMAIN kv => kv'[AuthKey(token)] # kv[AuthKey(token)]}

\* The step is the answer of the logout handler
LogoutAnswers == LogoutDue /\ guard'.answer = "302 /login"

\* The step is a session cookie found valid by validateSession
CookieValidates ==
  /\ guard.stage = "validateSession"
  /\ guard'.stage = "answered" /\ guard'.next

\* C39: dashboard tokens are created, validated and deleted in that order.
\* A token is stored only by a login or a Basic-Auth request that carries
\* the dashboard password, never by one with a wrong or missing password,
\* and it is stored for 7 days; a token validates only while its key is in
\* the store, which it is for no longer than 7 days from its storing; and
\* when GET /logout with the token's cookie has been answered the key of
\* the token is gone from the store, so that the token admits no request.
C39_TokenLifecycle ==
  [][/\ \A token \in StoredInStep :
          /\ guard'.request # Null
          /\ CarriesPassword(Val(guard'.request))
          /\ kv'[AuthKey(token)].expires = now + AUTH_SESSION_TTL
     /\ CookieValidates =>
          \A token \in Val(guard.request).sent.token :
            /\ AuthKey(token) \in DOMAIN kv
            /\ now < kv[AuthKey(token)].expires
            /\ kv[AuthKey(token)].expires
                 = kv[AuthKey(token)].value + AUTH_SESSION_TTL
     /\ LogoutAnswers =>
          \A token \in Val(guard.request).sent.token :
            AuthKey(token) \notin DOMAIN kv']_vars

\* A request whose Basic credentials carry the password secret:x has had a
\* token stored for it, which is in the store
C39_Witness_WrongPasswordStoresToken ==
  /\ guard.stage = "next"
  /\ Val(guard.request).sent.password = Some("secret:x")
  /\ guard.newSession # Null
  /\ AuthKey(Val(guard.newSession)) \in DOMAIN kv

====
